---- MODULE Spec2Model ----
(***************************************************************************)
(* State-machine model of the symmetry hub: the peer-transport dispatcher  *)
(* (SymmetryServer), the HTTP front door (WebServer) and the SQLite-backed *)
(* repositories they use.                                                  *)
(*                                                                         *)
(* Handlers are written as operators from a state record to a state       *)
(* record, so that a handler that calls another is their composition.  An *)
(* action takes the record of the current variables (State), applies the  *)
(* handler, and commits the result (Commit).  An `await` on a store call   *)
(* splits a handler into steps; the store statement executes atomically   *)
(* at the step that resumes the handler.  Store calls that the code does   *)
(* not await execute in the step that issues them.  Store statements are   *)
(* taken to succeed, except where a schema constraint rejects them.        *)
(* Two handlers are kept in one step although they await: the inference    *)
(* handler (its two store calls touch only the request counter of the      *)
(* session row) and the rate-limit read that opens the POST handler (the   *)
(* step is the moment the read executes).                                  *)
(***************************************************************************)
EXTENDS Integers, Sequences, FiniteSets, TLC

\* ------------------------------------------------------------------ bounds
MaxConns == 2
MaxReqs == 2
MaxRestarts == 1
MaxFrames == 2
MaxTimeouts == 2
MaxClock == 130000
MaxSessionTicks == 4
MaxPosts == 102
MaxPeerFrames == 502
MaxPeerTableFrames == 3

\* ------------------------------------------------------- program constants
MAX_MESSAGES_PER_MINUTE == 500
MESSAGE_CACHE_TTL == 60 * 1000
MAX_HTTP_REQUESTS == 100
TIME_WINDOW == 60
SESSION_DURATION == 10 * 60 * 1000
MIN_SUPPORTED_SYMMETRY_CORE_VERSION == <<1, 2, 0>>
MAX_RANDOM_PEER_REQUEST_ATTEMPTS == 5
maxRetries == 5
baseDelay == 100

\* ------------------------------------------------------------------ domains
Keys == {"k1", "k2"}
DKeys == {"d1", "d2"}
Models == {"m1"}
RequestModels == Models \cup {"m2"}
Ips == {"ip1"}
InferenceTokens == {"t1"}
SessionTokens == {"s1", "s2"}
Conns == 1 .. MaxConns
Reqs == 1 .. MaxReqs
NoConn == 0
NoReq == 0
NULL == -1
NoVersion == <<>>
Versions == {NoVersion, <<1, 1, 9>>, <<1, 2, 0>>, <<2, 0, 0>>}

VARIABLES
  phase,                 \* "reset_peers" | "end_orphans" | "listening"
  restarts,              \* number of hub restarts so far
  served,                \* a connection or HTTP request was accepted since start
  now,                   \* wall clock, milliseconds
  peers,                 \* table peers: set of rows
  provider_sessions,     \* table provider_sessions: sequence of rows, index = id
  ip_messages,           \* table ip_messages: ip -> row
  conn,                  \* transport connections: c -> [st, key]
  joinPending,           \* c -> join payloads whose upsert is awaited
  disc,                  \* c -> progress of the handlePeerDisconnect calls
  connectedPeers,        \* WebServer.connectedPeers: key -> connection
  httpPeerReplies,       \* WebServer.httpPeerReplies: key -> request
  inferenceTokens,       \* _inferenceTokens: token -> key
  durationIntervals,     \* _durationIntervals: key -> creator of the interval
  heartbeatIntervals,    \* _heartbeatIntervals: key -> creator of the interval
  healthCheckTimeouts,   \* _healthCheckTimeouts: key -> [by, live]
  armedDuration,         \* connections whose duration interval is armed
  armedHeartbeat,        \* c -> number of armed health-check intervals made for c
  armedTimeout,          \* c -> number of armed health-check timeouts made for c
  messageRateLimitCache, \* _messageRateLimitCache: key -> [present, count, start]
  reqs,                  \* HTTP requests: r -> [pc, ip, model, target, ...]
  providerRequests,      \* c -> the handleRequestProvider call made for c
  validations,           \* c -> the handleSessionValidation call made for c
  inferenceRequests,     \* c -> the handleInferenceRequest call made for c
  query,                 \* a runQuery call of a repository and its retries
  cli,                   \* the process of a delete-peer command
  out,                   \* frames written to peers by the last step
  sessions,              \* table sessions: id -> row
  issued,                \* history of the tokens createSession returned
  verified,              \* the last verifySession call and what it returned
  posts,                 \* ip -> the POSTs it has made: [n, first], and
                         \* those since its last counted request was last
                         \* found more than 60 minutes old: [fresh, opened]
  frames                 \* key -> the frames it has sent: [n, first]

vars == <<phase, restarts, served, now, peers, provider_sessions, ip_messages,
          conn, joinPending, disc, connectedPeers, httpPeerReplies,
          inferenceTokens, durationIntervals, heartbeatIntervals,
          healthCheckTimeouts, armedDuration, armedHeartbeat, armedTimeout,
          messageRateLimitCache, reqs, providerRequests, validations,
          inferenceRequests, query, cli, out, sessions, issued, verified,
          posts, frames>>

brokerVars == <<sessions, issued, verified>>

\* The mutable program state as one record, and its write-back.
State ==
  [peers |-> peers, provider_sessions |-> provider_sessions,
   ip_messages |-> ip_messages, conn |-> conn, joinPending |-> joinPending,
   disc |-> disc, connectedPeers |-> connectedPeers,
   httpPeerReplies |-> httpPeerReplies, inferenceTokens |-> inferenceTokens,
   durationIntervals |-> durationIntervals,
   heartbeatIntervals |-> heartbeatIntervals,
   healthCheckTimeouts |-> healthCheckTimeouts,
   armedDuration |-> armedDuration, armedHeartbeat |-> armedHeartbeat,
   armedTimeout |-> armedTimeout,
   messageRateLimitCache |-> messageRateLimitCache, reqs |-> reqs,
   providerRequests |-> providerRequests, validations |-> validations,
   inferenceRequests |-> inferenceRequests,
   query |-> query, cli |-> cli,
   now |-> now, out |-> <<>>]

Commit(s) ==
  /\ peers' = s.peers
  /\ provider_sessions' = s.provider_sessions
  /\ ip_messages' = s.ip_messages
  /\ conn' = s.conn
  /\ joinPending' = s.joinPending
  /\ disc' = s.disc
  /\ connectedPeers' = s.connectedPeers
  /\ httpPeerReplies' = s.httpPeerReplies
  /\ inferenceTokens' = s.inferenceTokens
  /\ durationIntervals' = s.durationIntervals
  /\ heartbeatIntervals' = s.heartbeatIntervals
  /\ healthCheckTimeouts' = s.healthCheckTimeouts
  /\ armedDuration' = s.armedDuration
  /\ armedHeartbeat' = s.armedHeartbeat
  /\ armedTimeout' = s.armedTimeout
  /\ messageRateLimitCache' = s.messageRateLimitCache
  /\ reqs' = s.reqs
  /\ providerRequests' = s.providerRequests
  /\ validations' = s.validations
  /\ inferenceRequests' = s.inferenceRequests
  /\ query' = s.query
  /\ cli' = s.cli
  /\ out' = s.out

\* peer.write(createMessage(frame, data)); <<>> stands for the payloads the
\* model does not look into.
WriteData(s, c, frame, data) ==
  [s EXCEPT !.out = Append(@, [to |-> c, frame |-> frame, data |-> data])]

Write(s, c, frame) == WriteData(s, c, frame, <<>>)

\* ------------------------------------------------------------- peer store
PeerRow(key, dkey, model, maxc) ==
  [key |-> key, discovery_key |-> dkey, model_name |-> model,
   max_connections |-> maxc, connections |-> NULL, online |-> TRUE,
   healthy |-> NULL]

\* INSERT OR REPLACE: the rows that conflict on the UNIQUE column
\* discovery_key are deleted, then the new row is inserted with the columns
\* the statement does not name at their defaults.
upsert(s, key, dkey, model, maxc) ==
  [s EXCEPT !.peers = {r \in s.peers : r.discovery_key # dkey}
                        \cup {PeerRow(key, dkey, model, maxc)}]

setPeerOffline(s, key) ==
  [s EXCEPT !.peers = {IF r.key = key THEN [r EXCEPT !.online = FALSE] ELSE r
                        : r \in s.peers}]

updateConnections(s, n, key) ==
  [s EXCEPT !.peers = {IF r.key = key THEN [r EXCEPT !.connections = n] ELSE r
                        : r \in s.peers}]

updatePeerHealthStatus(s, key, h) ==
  [s EXCEPT !.peers = {IF r.key = key THEN [r EXCEPT !.healthy = h] ELSE r
                        : r \in s.peers}]

\* A reset that marks the rows offline and leaves their connection counts.
resetAllPeersOffline(s) ==
  [s EXCEPT !.peers = {[r EXCEPT !.online = FALSE] : r \in s.peers}]

resetAllPeerConnections(s) ==
  [s EXCEPT !.peers = {[r EXCEPT !.online = FALSE, !.connections = 0]
                        : r \in s.peers}]

\* getByKey: the rows SELECT * FROM peers WHERE key = ? finds; the call
\* returns the first of them.
getByKey(tbl, key) == {r \in tbl : r.key = key}

\* The value of a SELECT that finds no row.
NoPeer ==
  [key |-> "", discovery_key |-> "", model_name |-> "", max_connections |-> 0,
   connections |-> NULL, online |-> FALSE, healthy |-> NULL]

\* The rows ORDER BY RANDOM() LIMIT 1 chooses among.
getRandom(s, model) == {r \in s.peers : r.model_name = model /\ r.online}

\* ------------------------------------------------- provider-session store
OpenSessions(ps, key) ==
  {i \in DOMAIN ps : ps[i].peer_key = key /\ ps[i].end_time = NULL}

\* startSession on a schema without idx_active_sessions.
startSessionNoIndex(s, key) ==
  [s EXCEPT !.provider_sessions =
     Append(s.provider_sessions,
            [peer_key |-> key, start_time |-> s.now,
             end_time |-> NULL, duration_minutes |-> NULL,
             total_requests |-> 0])]

\* INSERT INTO provider_sessions (peer_key): rejected by the partial unique
\* index idx_active_sessions when the key already has an open row.
startSession(s, key) ==
  IF OpenSessions(s.provider_sessions, key) # {}
    THEN s
    ELSE [s EXCEPT !.provider_sessions =
            Append(s.provider_sessions,
                   [peer_key |-> key, start_time |-> s.now,
                    end_time |-> NULL, duration_minutes |-> NULL,
                    total_requests |-> 0])]

updateSessionDuration(s, key) ==
  LET ps == s.provider_sessions
  IN [s EXCEPT !.provider_sessions =
        [i \in DOMAIN ps |->
           IF ps[i].peer_key = key /\ ps[i].end_time = NULL
             THEN [ps[i] EXCEPT !.duration_minutes =
                     (s.now - ps[i].start_time + 30000) \div 60000]
             ELSE ps[i]]]

\* An UPDATE without the `end_time IS NULL` condition.
endSessionAgain(s, key) ==
  LET ps == s.provider_sessions
  IN [s EXCEPT !.provider_sessions =
        [i \in DOMAIN ps |->
           IF ps[i].peer_key = key
             THEN [ps[i] EXCEPT !.end_time = s.now]
             ELSE ps[i]]]

endSession(s, key) ==
  LET ps == s.provider_sessions
  IN [s EXCEPT !.provider_sessions =
        [i \in DOMAIN ps |->
           IF ps[i].peer_key = key /\ ps[i].end_time = NULL
             THEN [ps[i] EXCEPT !.end_time = s.now]
             ELSE ps[i]]]

endOrphanedSessions(s) ==
  LET ps == s.provider_sessions
  IN [s EXCEPT !.provider_sessions =
        [i \in DOMAIN ps |->
           IF ps[i].end_time = NULL THEN [ps[i] EXCEPT !.end_time = s.now]
                                    ELSE ps[i]]]

Max(S) == CHOOSE x \in S : \A y \in S : y <= x

\* 0 stands for the null the code returns when the key has no open row.
getActiveSessionId(s, key) ==
  IF OpenSessions(s.provider_sessions, key) = {} THEN 0
  ELSE Max(OpenSessions(s.provider_sessions, key))

logRequest(s, id) ==
  LET ps == s.provider_sessions
  IN [s EXCEPT !.provider_sessions =
        [i \in DOMAIN ps |->
           IF i = id THEN [ps[i] EXCEPT !.total_requests = @ + 1] ELSE ps[i]]]

\* --------------------------------------------------------- rate-limit store
NoIpRow == [present |-> FALSE, message_count |-> 0, first_seen |-> 0,
            last_seen |-> 0]

incrementMessageCount(s, ip) ==
  LET row == s.ip_messages[ip]
  IN [s EXCEPT !.ip_messages[ip] =
        IF row.present
          THEN [row EXCEPT !.message_count = @ + 1, !.last_seen = s.now]
          ELSE [present |-> TRUE, message_count |-> 1, first_seen |-> s.now,
                last_seen |-> s.now]]

\* The row, or NoIpRow when the SELECT returns nothing.
getMessageCount(s, ip, timeWindowMinutes) ==
  LET row == s.ip_messages[ip]
      timeWindowStart == s.now - timeWindowMinutes * 60 * 1000
  IN IF row.present /\ row.last_seen >= timeWindowStart THEN row ELSE NoIpRow

\* ------------------------------------------------------ broker-session store
\* Date.toISOString: the instant as text, to the millisecond.
toISOString(t) == [sec |-> t \div 1000, ms |-> t % 1000]

\* new Date(text).getTime()
DateParse(iso) == iso.sec * 1000 + iso.ms

NoSession ==
  [present |-> FALSE, providerId |-> "", createdAt |-> toISOString(0),
   expiresAt |-> toISOString(0)]

\* sessionId is the value of crypto.randomUUID().
createSession(tbl, sessionId, providerId, t) ==
  [tbl EXCEPT ![sessionId] =
     [present |-> TRUE, providerId |-> providerId,
      createdAt |-> toISOString(t),
      expiresAt |-> toISOString(t + SESSION_DURATION)]]

deleteSession(tbl, sessionId) == [tbl EXCEPT ![sessionId] = NoSession]

\* verifySession with an expiry test that is not strict.
verifySessionEarly(tbl, sessionId, t) ==
  LET session == tbl[sessionId]
  IN IF ~session.present THEN [table |-> tbl, result |-> ""]
     ELSE IF t >= DateParse(session.expiresAt)
       THEN [table |-> deleteSession(tbl, sessionId), result |-> ""]
       ELSE [table |-> tbl, result |-> session.providerId]

\* The table after the call and the value returned ("" for null).
verifySession(tbl, sessionId, t) ==
  LET session == tbl[sessionId]
  IN IF ~session.present THEN [table |-> tbl, result |-> ""]
     ELSE IF t > DateParse(session.expiresAt)
       THEN [table |-> deleteSession(tbl, sessionId), result |-> ""]
       ELSE [table |-> tbl, result |-> session.providerId]

extendSession(tbl, sessionId, t) ==
  LET session == tbl[sessionId]
  IN IF ~session.present THEN tbl
     ELSE [tbl EXCEPT ![sessionId] =
             [present |-> TRUE, providerId |-> session.providerId,
              createdAt |-> session.createdAt,
              expiresAt |-> toISOString(t + SESSION_DURATION)]]

\* What the callers of the store know of a token: whether a create returned
\* it, whether it was deleted since, and when it runs out.
NotIssued == [st |-> "never", d |-> "", created |-> 0, expiry |-> 0]
NoVerify == [token |-> "", result |-> ""]

\* ------------------------------------------------------- runQuery, retries
\* The statements that go through BaseRepository.runQuery, and those of the
\* peer store, which has a runQuery of its own.
BaseOps ==
  {"incrementMessageCount", "startSession", "endSession", "logRequest",
   "createSession", "extendSession", "deleteSession"}
PeerOps ==
  {"upsert", "setPeerOffline", "deletePeer", "updateConnections",
   "resetAllPeerConnections"}

\* err.code of a failed statement; "" is success.
ErrorCodes == {"", "SQLITE_BUSY", "SQLITE_CONSTRAINT"}

\* A runQuery call: attempt is the loop variable, calls the number of times
\* the statement was handed to the database, delay the timeout being waited.
NoQuery ==
  [pc |-> "idle", op |-> "", attempt |-> 0, calls |-> 0, delay |-> 0,
   error |-> ""]

RECURSIVE Pow2(_)
Pow2(n) == IF n = 0 THEN 1 ELSE 2 * Pow2(n - 1)

\* BaseRepository.runQuery: the statement of the current attempt settled
\* with err.
runQuery(q, err) ==
  LET q1 == [q EXCEPT !.calls = @ + 1]
  IN IF err = "" THEN [q1 EXCEPT !.pc = "resolved"]
     ELSE IF err = "SQLITE_BUSY" /\ q.attempt < maxRetries - 1
       THEN [q1 EXCEPT !.pc = "waiting",
                       !.delay = baseDelay * Pow2(q.attempt)]
     ELSE [q1 EXCEPT !.pc = "rejected", !.error = err]

\* ... the timeout of the backoff fired: `continue`.
runQueryContinue(q) ==
  IF q.attempt + 1 < maxRetries
    THEN [q EXCEPT !.pc = "running", !.attempt = @ + 1, !.delay = 0]
    ELSE [q EXCEPT !.pc = "rejected", !.error = "Max retries exceeded"]

\* PeerRepository.runQuery: one db.run, its outcome is the outcome.
peerRunQuery(q, err) ==
  LET q1 == [q EXCEPT !.calls = @ + 1]
  IN IF err = "" THEN [q1 EXCEPT !.pc = "resolved"]
     ELSE [q1 EXCEPT !.pc = "rejected", !.error = err]

\* ------------------------------------------------------ delete-peer command
\* The process of `delete-peer <key>`: raised tells that the deletion ran
\* into an error, result is the value of server.deletePeer, status the exit
\* status (NULL while the process runs).
NoCli ==
  [pc |-> "none", key |-> "", raised |-> FALSE, result |-> FALSE,
   status |-> NULL]

\* server.deletePeer from the value of _peerRepository.deletePeer (failed:
\* the statement was rejected) to the await of deleteSession.
deletePeer(s, failed) ==
  LET key == s.cli.key
      changes == Cardinality({r \in s.peers : r.key = key})
  IN IF failed
       THEN [s EXCEPT !.cli.raised = TRUE, !.cli.result = FALSE,
                      !.cli.pc = "exiting"]
     ELSE IF changes > 0
       THEN [s EXCEPT !.peers = {r \in s.peers : r.key # key},
                      !.cli.pc = "delete_session"]
     ELSE [s EXCEPT !.cli.result = FALSE, !.cli.pc = "exiting"]

\* ... from the value of _sessionRepository.deleteSession to the return.
deletePeerResume(s, failed) ==
  IF failed
    THEN [s EXCEPT !.cli.raised = TRUE, !.cli.result = FALSE,
                   !.cli.pc = "exiting"]
    ELSE [s EXCEPT !.cli.result = TRUE, !.cli.pc = "exiting"]

\* The `finally` of the command: process.exit(0).
cliExit(s) == [s EXCEPT !.cli.status = 0, !.cli.pc = "exited"]

\* ------------------------------------------------------------------ timers
NoTimer == [by |-> NoConn, live |-> FALSE]

clearDurationInterval(s, key) ==
  [s EXCEPT !.armedDuration = @ \ {s.durationIntervals[key]}]

clearHeartbeatInterval(s, key) ==
  LET c == s.heartbeatIntervals[key]
  IN IF c # NoConn /\ s.armedHeartbeat[c] > 0
       THEN [s EXCEPT !.armedHeartbeat[c] = @ - 1]
       ELSE s

clearHealthCheckTimeout(s, key) ==
  LET t == s.healthCheckTimeouts[key]
  IN IF t.live /\ s.armedTimeout[t.by] > 0
       THEN [s EXCEPT !.armedTimeout[t.by] = @ - 1]
       ELSE s

\* ------------------------------------------------------- HTTP reply streams
\* reply.raw.end(chunk): ends the response; a stream that was already ended
\* takes no further chunk.
ReplyEnd(s, r, withError) ==
  IF s.reqs[r].ended THEN s
  ELSE [s EXCEPT !.reqs[r].ended = TRUE, !.reqs[r].err = withError]

\* A stream that takes a chunk after it was ended.
ReplyWriteAfterEnd(s, r) ==
  [s EXCEPT !.reqs[r].chunks = @ + 1]

\* reply.raw.write(message): a stream that was already ended refuses the
\* chunk (`late` becomes 1 once it has refused one).
ReplyWrite(s, r) ==
  IF s.reqs[r].ended THEN [s EXCEPT !.reqs[r].late = 1]
  ELSE [s EXCEPT !.reqs[r].chunks = @ + 1]

\* -------------------------------------------------------------- dispatcher
listeners(s, c, key) ==
  LET s1 == startSession(s, key)
  IN [s1 EXCEPT !.armedDuration = @ \cup {c},
                !.durationIntervals[key] = c,
                !.conn[c] = [st |-> "open", key |-> key]]

\* handlePeerDisconnect up to its first await.
handlePeerDisconnectSync(s, key) ==
  LET s1 == clearHealthCheckTimeout(
              clearDurationInterval(clearHeartbeatInterval(s, key), key), key)
  IN [s1 EXCEPT !.heartbeatIntervals[key] = NoConn,
                !.durationIntervals[key] = NoConn,
                !.healthCheckTimeouts[key] = NoTimer,
                !.connectedPeers[key] = NoConn,
                !.inferenceTokens =
                   [t \in InferenceTokens |->
                      IF s1.inferenceTokens[t] = key THEN "" ELSE
                        s1.inferenceTokens[t]]]

\* handlePeerDisconnect from its first statement to its return.
handlePeerDisconnect(s, key) ==
  endSession(setPeerOffline(handlePeerDisconnectSync(s, key), key), key)

handlePeerError(s, c, fatal) ==
  LET key == s.conn[c].key
      reply == s.httpPeerReplies[key]
      s1 == IF reply # NoReq /\ ~s.reqs[reply].closed
              THEN ReplyEnd(s, reply, TRUE) ELSE s
  IN IF fatal
       THEN [handlePeerDisconnectSync(s1, key) EXCEPT !.disc[c].err = "offline"]
       ELSE s1

sendHealthCheck(s, c) ==
  LET key == s.conn[c].key
      s1 == Write(s, c, "healthCheck")
  IN [s1 EXCEPT !.armedTimeout[c] = @ + 1,
                !.healthCheckTimeouts[key] = [by |-> c, live |-> TRUE]]

startHealthCheck(s, c) ==
  LET key == s.conn[c].key
      s1 == sendHealthCheck(s, c)
  IN [s1 EXCEPT !.armedHeartbeat[c] = @ + 1,
                !.heartbeatIntervals[key] = c]

\* A timeout callback that also takes the peer down.
healthCheckTimeoutDisconnects(s, c, registered) ==
  LET key == s.conn[c].key
      s1 == [s EXCEPT !.armedTimeout[c] = @ - 1,
                      !.healthCheckTimeouts[key].live =
                         IF registered THEN FALSE ELSE @]
      s2 == Write(updatePeerHealthStatus(s1, key, 0), c, "healthCheckFailed")
  IN setPeerOffline([s2 EXCEPT !.connectedPeers[key] = NoConn], key)

\* The callback of the health-check timeout.  `registered` tells whether the
\* timeout that fires is the one the table holds.
healthCheckTimeoutFired(s, c, registered) ==
  LET key == s.conn[c].key
      s1 == [s EXCEPT !.armedTimeout[c] = @ - 1,
                      !.healthCheckTimeouts[key].live =
                         IF registered THEN FALSE ELSE @]
  IN Write(updatePeerHealthStatus(s1, key, 0), c, "healthCheckFailed")

\* An acknowledgement that marks the peer healthy and leaves the timeout.
handleHealthCheckKeepsTimeout(s, c) ==
  LET key == s.conn[c].key
      timeout == s.healthCheckTimeouts[key]
  IN IF timeout.by # NoConn
       THEN Write(updatePeerHealthStatus(s, key, 1), c, "healthCheckAck")
       ELSE s

handleHealthCheck(s, c) ==
  LET key == s.conn[c].key
      timeout == s.healthCheckTimeouts[key]
  IN IF timeout.by # NoConn
       THEN LET s1 == clearHealthCheckTimeout(s, key)
                s2 == [s1 EXCEPT !.healthCheckTimeouts[key] = NoTimer]
            IN Write(updatePeerHealthStatus(s2, key, 1), c, "healthCheckAck")
       ELSE s

\* semver.lt on <<major, minor, patch>>.
SemverLt(a, b) ==
  \/ a[1] < b[1]
  \/ a[1] = b[1] /\ a[2] < b[2]
  \/ a[1] = b[1] /\ a[2] = b[2] /\ a[3] < b[3]

JoinPayload(f) == [dkey |-> f.dkey, model |-> f.model, maxc |-> f.maxc]

\* A join handler that reports the mismatch and goes on to the upsert.
handleJoinUngated(s, c, f) ==
  LET s1 == IF f.version = NoVersion
                 \/ SemverLt(f.version, MIN_SUPPORTED_SYMMETRY_CORE_VERSION)
              THEN WriteData(s, c, "versionMismatch",
                             MIN_SUPPORTED_SYMMETRY_CORE_VERSION)
              ELSE s
  IN [s1 EXCEPT !.joinPending[c] = @ \cup {JoinPayload(f)}]

\* handleJoin up to the await of the upsert.
handleJoin(s, c, f) ==
  IF f.version = NoVersion
       \/ SemverLt(f.version, MIN_SUPPORTED_SYMMETRY_CORE_VERSION)
    THEN WriteData(s, c, "versionMismatch", MIN_SUPPORTED_SYMMETRY_CORE_VERSION)
    ELSE [s EXCEPT !.joinPending[c] = @ \cup {JoinPayload(f)}]

\* handleJoin from the upsert on.
handleJoinResume(s, c, p) ==
  LET key == s.conn[c].key
      s1 == upsert(s, key, p.dkey, p.model, p.maxc)
      s2 == Write(s1, c, "joinAck")
      s3 == [s2 EXCEPT !.connectedPeers[key] = c,
                       !.joinPending[c] = @ \ {p}]
  IN startHealthCheck(s3, c)

\* A handleInferenceRequest call: where it stands and the id that
\* getActiveSessionId returned (0 for null).  A connection sends its next
\* inference frame after the call for the one before has returned.
NoInferenceRequest == [pc |-> "idle", sessionId |-> 0]

\* handleInferenceRequest up to `await this._providerSessionRepository
\* .getActiveSessionId(peerKey)`.
handleInferenceRequest(s, c, f) ==
  LET key == s.conn[c].key
      s1 == IF f.token # "" THEN [s EXCEPT !.inferenceTokens[f.token] = key]
                            ELSE s
  IN [s1 EXCEPT !.inferenceRequests[c].pc = "select"]

\* ... from the value of getActiveSessionId to the await of logRequest.
handleInferenceRequestSelected(s, c) ==
  LET sessionId == getActiveSessionId(s, s.conn[c].key)
  IN IF sessionId = 0
       THEN [s EXCEPT !.inferenceRequests[c] = NoInferenceRequest]
       ELSE [s EXCEPT !.inferenceRequests[c] =
               [pc |-> "log", sessionId |-> sessionId]]

\* ... logRequest resolves and the handler returns.
handleInferenceRequestLogged(s, c) ==
  LET s1 == logRequest(s, s.inferenceRequests[c].sessionId)
  IN [s1 EXCEPT !.inferenceRequests[c] = NoInferenceRequest]

handleProviderConnections(s, c, f) ==
  updateConnections(s, f.n, s.conn[c].key)

handleChallenge(s, c) == Write(s, c, "challenge")

\* A handleRequestProvider call: where it stands (pc), the model asked for,
\* the value of `attempts`, the row getRandom returned; lookups counts the
\* getRandom calls that have returned (a history of the call).
NoProviderRequest ==
  [pc |-> "idle", model |-> "", attempts |-> 0, providerPeer |-> NoPeer,
   lookups |-> 0]

\* handleRequestProvider up to `await this.getRandomPeer(...)`.
handleRequestProvider(s, c, model, attempts) ==
  IF attempts > MAX_RANDOM_PEER_REQUEST_ATTEMPTS
    THEN [s EXCEPT !.providerRequests[c].pc = "returned"]
    ELSE [s EXCEPT !.providerRequests[c].pc = "lookup",
                   !.providerRequests[c].model = model,
                   !.providerRequests[c].attempts = attempts]

\* `providerPeer.connections || 0`
OrZero(n) == IF n = NULL THEN 0 ELSE n

\* A capacity test that lets a provider at its limit through.
handleRequestProviderLookupAbove(s, c, providerPeer) ==
  LET q == s.providerRequests[c]
      s1 == [s EXCEPT !.providerRequests[c].lookups = @ + 1]
  IN IF providerPeer = NoPeer
       THEN handleRequestProvider(s1, c, q.model, q.attempts + 1)
     ELSE IF OrZero(providerPeer.connections) > providerPeer.max_connections
       THEN [s1 EXCEPT !.providerRequests[c].pc = "returned"]
     ELSE [s1 EXCEPT !.providerRequests[c].pc = "create",
                     !.providerRequests[c].providerPeer = providerPeer]

\* handleRequestProvider from the value of getRandomPeer up
\* to `await this._sessionRepository.createSession(...)`.
handleRequestProviderLookup(s, c, providerPeer) ==
  LET q == s.providerRequests[c]
      s1 == [s EXCEPT !.providerRequests[c].lookups = @ + 1]
  IN IF providerPeer = NoPeer
       THEN handleRequestProvider(s1, c, q.model, q.attempts + 1)
     ELSE IF OrZero(providerPeer.connections) >= providerPeer.max_connections
       THEN [s1 EXCEPT !.providerRequests[c].pc = "returned"]
     ELSE [s1 EXCEPT !.providerRequests[c].pc = "create",
                     !.providerRequests[c].providerPeer = providerPeer]

\* handleRequestProvider from the value of createSession to its end.
handleRequestProviderReply(s, c, sessionToken) ==
  LET providerPeer == s.providerRequests[c].providerPeer
      s1 == WriteData(s, c, "providerDetails",
                      [providerId |-> providerPeer.key,
                       sessionToken |-> sessionToken])
  IN [s1 EXCEPT !.providerRequests[c].pc = "returned"]

\* getByDiscoveryKey: the rows SELECT * FROM peers WHERE discovery_key = ?
\* finds.
getByDiscoveryKey(tbl, discoveryKey) ==
  {r \in tbl : r.discovery_key = discoveryKey}

NoValidation == [pc |-> "idle", sessionToken |-> "", providerDiscoveryKey |-> ""]

\* handleSessionValidation up to `await this._sessionRepository
\* .verifySession(sessionToken)`.
handleSessionValidation(s, c, sessionToken) ==
  IF sessionToken = "" THEN s
  ELSE [s EXCEPT !.validations[c] =
          [pc |-> "verify", sessionToken |-> sessionToken,
           providerDiscoveryKey |-> ""]]

\* ... from the value of verifySession ("" for null) to the await of
\* getByDiscoveryKey.
handleSessionValidationVerified(s, c, providerDiscoveryKey) ==
  IF providerDiscoveryKey = ""
    THEN [s EXCEPT !.validations[c].pc = "returned"]
    ELSE [s EXCEPT !.validations[c].pc = "lookup",
                   !.validations[c].providerDiscoveryKey =
                      providerDiscoveryKey]

\* A reply that is written whether or not the provider row was found.
handleSessionValidationLookupAlways(s, c, providerPeer) ==
  LET s1 == WriteData(s, c, "sessionValid",
                      [discoveryKey |-> providerPeer.discovery_key,
                       modelName |-> providerPeer.model_name])
  IN [s1 EXCEPT !.validations[c].pc = "extend"]

\* ... from the value of getByDiscoveryKey to the await of extendSession.
\* The columns name and provider of the row are not modelled.
handleSessionValidationLookup(s, c, providerPeer) ==
  IF providerPeer = NoPeer
    THEN [s EXCEPT !.validations[c].pc = "returned"]
    ELSE
      LET s1 == WriteData(s, c, "sessionValid",
                          [discoveryKey |-> providerPeer.discovery_key,
                           modelName |-> providerPeer.model_name])
      IN [s1 EXCEPT !.validations[c].pc = "extend"]

\* ... after extendSession has resolved.
handleSessionValidationExtended(s, c) ==
  [s EXCEPT !.validations[c].pc = "returned"]

\* The catch clause: one of the three store calls has rejected.
handleSessionValidationCatch(s, c) ==
  LET s1 == WriteData(s, c, "sessionValid", [valid |-> FALSE])
  IN [s1 EXCEPT !.validations[c].pc = "returned"]

\* A frame as the data handler sees it after safeParseJson; key = "" is a
\* message that is no keyed frame (raw bytes of a streamed response).
Frame(key) ==
  [key |-> key, version |-> NoVersion, dkey |-> "", model |-> "", maxc |-> 0,
   n |-> 0, token |-> ""]

JoinFrames ==
  {[Frame("join") EXCEPT !.version = v, !.dkey = d, !.model = m, !.maxc = 1]
     : v \in Versions, d \in DKeys, m \in Models}

Frames ==
  JoinFrames
    \cup {Frame(""), Frame("inferenceEnded"), Frame("healthCheck"),
          Frame("challenge")}
    \cup {[Frame("conectionSize") EXCEPT !.n = n] : n \in {1}}
    \cup {[Frame("inference") EXCEPT !.token = t] : t \in InferenceTokens}
    \cup {[Frame("requestProvider") EXCEPT !.model = m] : m \in RequestModels}
    \cup {[Frame("verifySession") EXCEPT !.token = t] :
             t \in SessionTokens \cup {""}}

NoCacheEntry == [present |-> FALSE, count |-> 0, start |-> 0]

\* LRUCache.get: the value, or undefined (|| 0) for an absent or stale entry.
CacheGet(s, key) ==
  LET e == s.messageRateLimitCache[key]
  IN IF e.present /\ ~(s.now - e.start > MESSAGE_CACHE_TTL) THEN e.count ELSE 0

\* A limit that is reached one frame later.
RateLimitedAbove(s, key) == CacheGet(s, key) > MAX_MESSAGES_PER_MINUTE

RateLimited(s, key) == CacheGet(s, key) >= MAX_MESSAGES_PER_MINUTE

dispatch(s, c, f) ==
  CASE f.key = "join" -> handleJoin(s, c, f)
    [] f.key = "inference" -> handleInferenceRequest(s, c, f)
    [] f.key = "challenge" -> handleChallenge(s, c)
    [] f.key = "conectionSize" -> handleProviderConnections(s, c, f)
    [] f.key = "healthCheck" -> handleHealthCheck(s, c)
    [] f.key = "requestProvider" -> handleRequestProvider(s, c, f.model, 0)
    [] f.key = "verifySession" -> handleSessionValidation(s, c, f.token)
    [] OTHER -> s

\* A listener that ends the responder with an error event on inferenceEnded.
dataEndsWithError(s, c, f) ==
  LET key == s.conn[c].key
      currentCount == CacheGet(s, key)
  IN IF RateLimited(s, key) THEN s
     ELSE
       LET s1 == [s EXCEPT !.messageRateLimitCache[key] =
                    [present |-> TRUE, count |-> currentCount + 1,
                     start |-> s.now]]
           httpReply == s1.httpPeerReplies[key]
       IN IF httpReply # NoReq /\ ~s1.reqs[httpReply].closed /\ f.key = ""
            THEN ReplyWrite(s1, httpReply)
            ELSE
              LET s2 == IF f.key = "inferenceEnded" /\ httpReply # NoReq
                          THEN ReplyEnd(s1, httpReply, TRUE) ELSE s1
              IN dispatch(s2, c, f)

\* A listener that relays every message to the pending responder, keyed
\* frames included.
dataRelaysFrames(s, c, f) ==
  LET key == s.conn[c].key
      currentCount == CacheGet(s, key)
  IN IF RateLimited(s, key) THEN s
     ELSE
       LET s1 == [s EXCEPT !.messageRateLimitCache[key] =
                    [present |-> TRUE, count |-> currentCount + 1,
                     start |-> s.now]]
           httpReply == s1.httpPeerReplies[key]
       IN IF httpReply # NoReq /\ ~s1.reqs[httpReply].closed
            THEN ReplyWrite(s1, httpReply)
            ELSE
              LET s2 == IF f.key = "inferenceEnded" /\ httpReply # NoReq
                          THEN ReplyEnd(s1, httpReply, FALSE) ELSE s1
              IN dispatch(s2, c, f)

\* The "data" listener of a connection.
data(s, c, f) ==
  LET key == s.conn[c].key
      currentCount == CacheGet(s, key)
  IN IF RateLimited(s, key) THEN s
     ELSE
       LET s1 == [s EXCEPT !.messageRateLimitCache[key] =
                    [present |-> TRUE, count |-> currentCount + 1,
                     start |-> s.now]]
           httpReply == s1.httpPeerReplies[key]
       IN IF httpReply # NoReq /\ ~s1.reqs[httpReply].closed /\ f.key = ""
            THEN ReplyWrite(s1, httpReply)
            ELSE
              LET s2 == IF f.key = "inferenceEnded" /\ httpReply # NoReq
                          THEN ReplyEnd(s1, httpReply, FALSE) ELSE s1
              IN dispatch(s2, c, f)

\* ---------------------------------------------------------- HTTP front door
NoRequest ==
  [pc |-> "none", ip |-> "", model |-> "", target |-> "", status |-> 0,
   ended |-> FALSE, closed |-> FALSE, err |-> FALSE, chunks |-> 0,
   late |-> 0]

\* The rate-limit check with a limit that is reached one request later.
httpCheckAbove(s, r, ip, model) ==
  LET messageCount == getMessageCount(s, ip, TIME_WINDOW)
      req == [NoRequest EXCEPT !.ip = ip, !.model = model]
  IN IF messageCount.present
          /\ messageCount.message_count > MAX_HTTP_REQUESTS
       THEN [s EXCEPT !.reqs[r] =
               [req EXCEPT !.pc = "returned", !.status = 429, !.ended = TRUE]]
       ELSE [s EXCEPT !.reqs[r] = [req EXCEPT !.pc = "admitted"]]

\* A handler that counts the request before it looks at the limit.
httpCheckCounting(s, r, ip, model) ==
  LET s1 == incrementMessageCount(s, ip)
      messageCount == getMessageCount(s, ip, TIME_WINDOW)
      req == [NoRequest EXCEPT !.ip = ip, !.model = model]
  IN IF messageCount.present
          /\ messageCount.message_count >= MAX_HTTP_REQUESTS
       THEN [s1 EXCEPT !.reqs[r] =
               [req EXCEPT !.pc = "returned", !.status = 429, !.ended = TRUE]]
       ELSE [s EXCEPT !.reqs[r] = [req EXCEPT !.pc = "admitted"]]

\* POST /v1/chat/completions up to the await of incrementMessageCount.
httpCheck(s, r, ip, model) ==
  LET messageCount == getMessageCount(s, ip, TIME_WINDOW)
      req == [NoRequest EXCEPT !.ip = ip, !.model = model]
  IN IF messageCount.present
          /\ messageCount.message_count >= MAX_HTTP_REQUESTS
       THEN [s EXCEPT !.reqs[r] =
               [req EXCEPT !.pc = "returned", !.status = 429, !.ended = TRUE]]
       ELSE [s EXCEPT !.reqs[r] = [req EXCEPT !.pc = "admitted"]]

\* ... from incrementMessageCount to the await of getRandom.
httpIncrement(s, r) ==
  LET s1 == incrementMessageCount(s, s.reqs[r].ip)
  IN [s1 EXCEPT !.reqs[r].pc = "selecting", !.reqs[r].status = 200]

\* ... with no row from getRandom.
httpNoPeers(s, r) ==
  [ReplyEnd(s, r, TRUE) EXCEPT !.reqs[r].pc = "returned"]

\* ... with the row dbPeer from getRandom.
httpSelect(s, r, dbPeer) ==
  LET peer == s.connectedPeers[dbPeer.key]
  IN IF peer = NoConn
       THEN [s EXCEPT !.reqs[r].pc = "returned"]
       ELSE [Write(s, peer, "inference") EXCEPT
               !.httpPeerReplies[dbPeer.key] = r,
               !.reqs[r].pc = "parked",
               !.reqs[r].target = dbPeer.key]

\* The "close" listener of the request.
httpClose(s, r) ==
  [s EXCEPT !.httpPeerReplies[s.reqs[r].target] = NoReq,
            !.reqs[r].closed = TRUE,
            !.reqs[r].pc = "closed"]

\* ------------------------------------------------------------------ startup
\* reply: the responder that was pending for the peer when its connection
\* closed or failed; joined: a join of the connection went through its
\* upsert (both a history of the run, not fields of the program).
NoDisc == [err |-> "idle", close |-> "idle", reply |-> NoReq, joined |-> FALSE]

\* The responder registered for key that has neither ended nor been closed
\* by its client.
PendingReply(key) ==
  LET r == httpPeerReplies[key]
  IN IF r # NoReq /\ ~reqs[r].ended /\ ~reqs[r].closed THEN r ELSE NoReq

Lost(c) ==
  IF disc[c].reply = NoReq THEN PendingReply(conn[c].key) ELSE disc[c].reply
NoConnection == [st |-> "none", key |-> ""]

\* The memory of a process that has just been constructed.  The streams of
\* the previous process are gone with it.
FreshMemory(s) ==
  [s EXCEPT
     !.conn = [c \in Conns |->
                 IF s.conn[c].st \in {"open", "errored"}
                   THEN [s.conn[c] EXCEPT !.st = "lost"]
                   ELSE s.conn[c]],
     !.reqs = [r \in Reqs |->
                 IF s.reqs[r].pc = "none" THEN NoRequest
                 ELSE [s.reqs[r] EXCEPT !.pc = "lost"]],
     !.joinPending = [c \in Conns |-> {}],
     !.providerRequests = [c \in Conns |-> NoProviderRequest],
     !.validations = [c \in Conns |-> NoValidation],
     !.inferenceRequests = [c \in Conns |-> NoInferenceRequest],
     !.disc = [c \in Conns |-> NoDisc],
     !.connectedPeers = [k \in Keys |-> NoConn],
     !.httpPeerReplies = [k \in Keys |-> NoReq],
     !.inferenceTokens = [t \in InferenceTokens |-> ""],
     !.durationIntervals = [k \in Keys |-> NoConn],
     !.heartbeatIntervals = [k \in Keys |-> NoConn],
     !.healthCheckTimeouts = [k \in Keys |-> NoTimer],
     !.armedDuration = {},
     !.armedHeartbeat = [c \in Conns |-> 0],
     !.armedTimeout = [c \in Conns |-> 0],
     !.messageRateLimitCache = [k \in Keys |-> NoCacheEntry]]

\* resetAllPeersOnStartup after its first await: the maps it clears belong to
\* the fresh process and are empty already.
resetAllPeersOnStartupResume(s) ==
  [endOrphanedSessions(s) EXCEPT
     !.connectedPeers = [k \in Keys |-> NoConn],
     !.heartbeatIntervals = [k \in Keys |-> NoConn]]

\* ------------------------------------------------------------------ actions
Step(s) ==
  /\ Commit(s)
  /\ UNCHANGED <<phase, restarts, now, brokerVars, posts, frames>>

Init ==
  /\ phase = "reset_peers"
  /\ restarts = 0
  /\ served = FALSE
  /\ now = 0
  /\ peers = {}
  /\ provider_sessions = <<>>
  /\ ip_messages = [i \in Ips |-> NoIpRow]
  /\ conn = [c \in Conns |-> NoConnection]
  /\ reqs = [r \in Reqs |-> NoRequest]
  /\ joinPending = [c \in Conns |-> {}]
  /\ providerRequests = [c \in Conns |-> NoProviderRequest]
  /\ validations = [c \in Conns |-> NoValidation]
  /\ inferenceRequests = [c \in Conns |-> NoInferenceRequest]
  /\ query = NoQuery
  /\ cli = NoCli
  /\ disc = [c \in Conns |-> NoDisc]
  /\ connectedPeers = [k \in Keys |-> NoConn]
  /\ httpPeerReplies = [k \in Keys |-> NoReq]
  /\ inferenceTokens = [t \in InferenceTokens |-> ""]
  /\ durationIntervals = [k \in Keys |-> NoConn]
  /\ heartbeatIntervals = [k \in Keys |-> NoConn]
  /\ healthCheckTimeouts = [k \in Keys |-> NoTimer]
  /\ armedDuration = {}
  /\ armedHeartbeat = [c \in Conns |-> 0]
  /\ armedTimeout = [c \in Conns |-> 0]
  /\ messageRateLimitCache = [k \in Keys |-> NoCacheEntry]
  /\ out = <<>>
  /\ sessions = [t \in SessionTokens |-> NoSession]
  /\ issued = [t \in SessionTokens |-> NotIssued]
  /\ verified = NoVerify
  /\ posts = [i \in Ips |-> [n |-> 0, first |-> 0, fresh |-> 0,
                            opened |-> 0]]
  /\ frames = [k \in Keys |-> [n |-> 0, first |-> 0]]

\* init(): await resetAllPeerConnections().
StartupResetPeers ==
  /\ phase = "reset_peers"
  /\ Commit(resetAllPeerConnections(State))
  /\ phase' = "end_orphans"
  /\ UNCHANGED <<restarts, served, now, brokerVars, posts, frames>>

\* init(): await endOrphanedSessions(), then the connection listener and the
\* web server are installed.
StartupEndOrphans ==
  /\ phase = "end_orphans"
  /\ Commit(resetAllPeersOnStartupResume(State))
  /\ phase' = "listening"
  /\ UNCHANGED <<restarts, served, now, brokerVars, posts, frames>>

\* The process stops and a new one is started on the same database.
Restart ==
  /\ restarts < MaxRestarts
  /\ Commit(FreshMemory(State))
  /\ phase' = "reset_peers"
  /\ restarts' = restarts + 1
  /\ served' = FALSE
  /\ UNCHANGED <<now, brokerVars, posts, frames>>

\* swarm.on("connection"): connection ids are handed out in order.
Connect(c, key) ==
  /\ phase = "listening"
  /\ conn[c].st = "none"
  /\ \A d \in Conns : d < c => conn[d].st # "none"
  /\ Step(listeners(State, c, key))
  /\ served' = TRUE

PeerData(c, f) ==
  /\ conn[c].st = "open"
  /\ Commit(data(State, c, f))
  /\ frames' = [frames EXCEPT ![conn[c].key] =
                  [n |-> @.n + 1, first |-> IF @.n = 0 THEN now ELSE @.first]]
  /\ UNCHANGED <<phase, restarts, now, brokerVars, posts, served>>

JoinResume(c, p) ==
  /\ p \in joinPending[c]
  /\ Step([handleJoinResume(State, c, p) EXCEPT !.disc[c].joined = TRUE])
  /\ UNCHANGED served

PeerError(c, fatal) ==
  /\ conn[c].st = "open"
  /\ Step([handlePeerError(State, c, fatal) EXCEPT
             !.conn[c].st = "errored",
             !.disc[c].reply = IF fatal THEN Lost(c) ELSE @])
  /\ UNCHANGED served

PeerClose(c) ==
  /\ conn[c].st \in {"open", "errored"}
  /\ Step([handlePeerDisconnectSync(State, conn[c].key) EXCEPT
             !.conn[c].st = "closed", !.disc[c].close = "offline",
             !.disc[c].reply = Lost(c)])
  /\ UNCHANGED served

\* handlePeerDisconnect: await setPeerOffline().
DisconnectOffline(c, h) ==
  /\ disc[c][h] = "offline"
  /\ Step([setPeerOffline(State, conn[c].key) EXCEPT !.disc[c][h] = "end"])
  /\ UNCHANGED served

\* handlePeerDisconnect: await endSession(), then it returns.
DisconnectEnd(c, h) ==
  /\ disc[c][h] = "end"
  /\ Step([endSession(State, conn[c].key) EXCEPT !.disc[c][h] = "done"])
  /\ UNCHANGED served

DurationTick(c) ==
  /\ c \in armedDuration
  /\ Step(updateSessionDuration(State, conn[c].key))
  /\ UNCHANGED served

\* An interval of startHealthCheck fires.  It fires HEALTH_CHECK_INTERVAL
\* (15 min) after the health check before it, whose timeout
\* (HEALTH_CHECK_TIMEOUT, 15 s) has fired or was cancelled by then: of the
\* timeouts made for c only those of its other intervals can be armed.
HeartbeatTick(c) ==
  /\ armedHeartbeat[c] > 0
  /\ armedTimeout[c] < armedHeartbeat[c]
  /\ armedTimeout[c] < MaxTimeouts
  /\ Step(sendHealthCheck(State, c))
  /\ UNCHANGED served

RegisteredLive(c) ==
  LET t == healthCheckTimeouts[conn[c].key]
  IN IF t.by = c /\ t.live THEN 1 ELSE 0

HealthTimeout(c, registered) ==
  /\ armedTimeout[c] > 0
  /\ IF registered THEN RegisteredLive(c) = 1
                   ELSE armedTimeout[c] > RegisteredLive(c)
  /\ Step(healthCheckTimeoutFired(State, c, registered))
  /\ UNCHANGED served

\* The IP has made no request, or its last counted one is more than 60
\* minutes old.
WindowOver(ip) ==
  \/ posts[ip].n = 0
  \/ /\ ip_messages[ip].present
     /\ now - ip_messages[ip].last_seen > TIME_WINDOW * 60 * 1000

HttpRequest(r, ip, model) ==
  /\ phase = "listening"
  /\ reqs[r].pc = "none"
  /\ \A q \in Reqs : q < r => reqs[q].pc # "none"
  /\ Commit(httpCheck(State, r, ip, model))
  /\ served' = TRUE
  /\ posts' = [posts EXCEPT ![ip] =
                 [n |-> @.n + 1, first |-> IF @.n = 0 THEN now ELSE @.first,
                  fresh |-> IF WindowOver(ip) THEN 1 ELSE @.fresh + 1,
                  opened |-> IF WindowOver(ip) THEN now ELSE @.opened]]
  /\ UNCHANGED <<phase, restarts, now, brokerVars, frames>>

HttpIncrement(r) ==
  /\ reqs[r].pc = "admitted"
  /\ Step(httpIncrement(State, r))
  /\ UNCHANGED served

HttpSelect(r) ==
  /\ reqs[r].pc = "selecting"
  /\ \/ /\ getRandom(State, reqs[r].model) = {}
        /\ Step(httpNoPeers(State, r))
     \/ \E dbPeer \in getRandom(State, reqs[r].model) :
          Step(httpSelect(State, r, dbPeer))
  /\ UNCHANGED served

HttpClose(r) ==
  /\ reqs[r].pc = "parked"
  /\ Step(httpClose(State, r))
  /\ UNCHANGED served

\* The exchange of a request whose handler has returned is over; its client
\* may make its next request.
HttpDone(r) ==
  /\ reqs[r].pc = "returned"
  /\ Step([State EXCEPT !.reqs[r] = NoRequest])
  /\ UNCHANGED served

\* getRandomPeer resolves with providerPeer: one of the rows the query
\* chooses among, or no row when there is none.
RequestLookup(c, providerPeer) ==
  /\ providerRequests[c].pc = "lookup"
  /\ LET rows == getRandom(State, providerRequests[c].model)
     IN providerPeer \in (IF rows = {} THEN {NoPeer} ELSE rows)
  /\ Step(handleRequestProviderLookup(State, c, providerPeer))
  /\ UNCHANGED served

\* createSession resolves: the row is inserted under a fresh id, the reply is
\* written.
RequestCreate(c, t) ==
  /\ providerRequests[c].pc = "create"
  /\ issued[t].st = "never"
  /\ sessions' = createSession(sessions, t,
                   providerRequests[c].providerPeer.discovery_key, now)
  /\ issued' = [issued EXCEPT ![t] =
                  [st |-> "live",
                   d |-> providerRequests[c].providerPeer.discovery_key,
                   created |-> now, expiry |-> now + SESSION_DURATION]]
  /\ Commit(handleRequestProviderReply(State, c, t))
  /\ UNCHANGED <<phase, restarts, served, now, verified, posts, frames>>

\* A repository method hands a statement to runQuery.
QueryStart(op) ==
  /\ query.pc \in {"idle", "resolved", "rejected"}
  /\ Step([State EXCEPT !.query = [NoQuery EXCEPT !.pc = "running",
                                                   !.op = op]])
  /\ UNCHANGED served

\* The database answers the statement.
QuerySettle(err) ==
  /\ query.pc = "running"
  /\ Step([State EXCEPT !.query = IF query.op \in PeerOps
                                    THEN peerRunQuery(query, err)
                                    ELSE runQuery(query, err)])
  /\ UNCHANGED served

QueryBackoff ==
  /\ query.pc = "waiting"
  /\ Step([State EXCEPT !.query = runQueryContinue(query)])
  /\ UNCHANGED served

\* `delete-peer <key>` is started: a second process on the same database,
\* which constructs a SymmetryServer and awaits its init().
CliStart(key) ==
  /\ phase = "listening"
  /\ cli.pc = "none"
  /\ Step([State EXCEPT !.cli = [NoCli EXCEPT !.pc = "reset_peers",
                                               !.key = key]])
  /\ UNCHANGED served

CliResetPeers ==
  /\ cli.pc = "reset_peers"
  /\ Step([resetAllPeerConnections(State) EXCEPT !.cli.pc = "end_orphans"])
  /\ UNCHANGED served

CliEndOrphans ==
  /\ cli.pc = "end_orphans"
  /\ Step([endOrphanedSessions(State) EXCEPT !.cli.pc = "delete"])
  /\ UNCHANGED served

CliDelete(failed) ==
  /\ cli.pc = "delete"
  /\ Step(deletePeer(State, failed))
  /\ UNCHANGED served

\* deleteSession(peerKey): DELETE FROM sessions WHERE id = <the peer key>.
CliDeleteSession(failed) ==
  /\ cli.pc = "delete_session"
  /\ Commit(deletePeerResume(State, failed))
  /\ sessions' = IF ~failed /\ cli.key \in SessionTokens
                   THEN deleteSession(sessions, cli.key) ELSE sessions
  /\ UNCHANGED <<phase, restarts, served, now, issued, verified, posts,
                 frames>>

CliExit ==
  /\ cli.pc = "exiting"
  /\ Step(cliExit(State))
  /\ UNCHANGED served

\* The clock advances by d milliseconds, up to cap.
Tick(d, cap) ==
  /\ now + d <= cap
  /\ now' = now + d
  /\ UNCHANGED <<phase, restarts, served, peers, provider_sessions,
                 ip_messages, conn, joinPending, disc, connectedPeers,
                 httpPeerReplies, inferenceTokens, durationIntervals,
                 heartbeatIntervals, healthCheckTimeouts, armedDuration,
                 armedHeartbeat, armedTimeout, messageRateLimitCache, reqs,
                 providerRequests, validations, inferenceRequests, query,
                 cli, out, sessions, issued, posts, frames>>
  /\ verified' = NoVerify

hubVars ==
  <<phase, restarts, served, now, peers, provider_sessions, ip_messages,
    conn, joinPending, disc, connectedPeers, httpPeerReplies,
    inferenceTokens, durationIntervals, heartbeatIntervals,
    healthCheckTimeouts, armedDuration, armedHeartbeat, armedTimeout,
    messageRateLimitCache, reqs, providerRequests, validations,
    inferenceRequests, query, cli, out, posts, frames>>

Expired(t) == issued[t].st = "live" /\ now > issued[t].expiry

\* createSession(d): randomUUID returns an id no call returned before.
Create(t, d) ==
  /\ issued[t].st = "never"
  /\ sessions' = createSession(sessions, t, d, now)
  /\ issued' = [issued EXCEPT ![t] =
                  [st |-> "live", d |-> d, created |-> now,
                   expiry |-> now + SESSION_DURATION]]
  /\ verified' = NoVerify
  /\ UNCHANGED hubVars

Verify(t) ==
  /\ sessions' = verifySession(sessions, t, now).table
  /\ verified' = [token |-> t, result |-> verifySession(sessions, t, now).result]
  /\ issued' = IF Expired(t) THEN [issued EXCEPT ![t].st = "deleted"]
                             ELSE issued
  /\ UNCHANGED hubVars

Extend(t) ==
  /\ sessions' = extendSession(sessions, t, now)
  /\ issued' = IF issued[t].st = "live"
                 THEN [issued EXCEPT ![t].expiry = now + SESSION_DURATION]
                 ELSE issued
  /\ verified' = NoVerify
  /\ UNCHANGED hubVars

Delete(t) ==
  /\ sessions' = deleteSession(sessions, t)
  /\ issued' = IF issued[t].st = "live"
                 THEN [issued EXCEPT ![t].st = "deleted"]
                 ELSE issued
  /\ verified' = NoVerify
  /\ UNCHANGED hubVars

\* getActiveSessionId resolves in handleInferenceRequest.
InferenceSelect(c) ==
  /\ inferenceRequests[c].pc = "select"
  /\ Step(handleInferenceRequestSelected(State, c))
  /\ UNCHANGED served

\* logRequest resolves in handleInferenceRequest.
InferenceLog(c) ==
  /\ inferenceRequests[c].pc = "log"
  /\ Step(handleInferenceRequestLogged(State, c))
  /\ UNCHANGED served

\* verifySession resolves.
ValidateVerify(c) ==
  /\ validations[c].pc = "verify"
  /\ LET t == validations[c].sessionToken
         v == verifySession(sessions, t, now)
     IN /\ sessions' = v.table
        /\ verified' = [token |-> t, result |-> v.result]
        /\ issued' = IF Expired(t) THEN [issued EXCEPT ![t].st = "deleted"]
                                   ELSE issued
        /\ Commit(handleSessionValidationVerified(State, c, v.result))
  /\ UNCHANGED <<phase, restarts, served, now, posts, frames>>

\* getByDiscoveryKey resolves with the row it found, or with none.
ValidateLookup(c, providerPeer) ==
  /\ validations[c].pc = "lookup"
  /\ LET rows == getByDiscoveryKey(peers, validations[c].providerDiscoveryKey)
     IN providerPeer \in (IF rows = {} THEN {NoPeer} ELSE rows)
  /\ Step(handleSessionValidationLookup(State, c, providerPeer))
  /\ UNCHANGED served

\* extendSession resolves.
ValidateExtend(c) ==
  /\ validations[c].pc = "extend"
  /\ LET t == validations[c].sessionToken
     IN /\ sessions' = extendSession(sessions, t, now)
        /\ issued' = IF issued[t].st = "live"
                       THEN [issued EXCEPT ![t].expiry = now + SESSION_DURATION]
                       ELSE issued
  /\ verified' = NoVerify
  /\ Commit(handleSessionValidationExtended(State, c))
  /\ UNCHANGED <<phase, restarts, served, now, posts, frames>>

\* The store call the handler awaits rejects.
ValidateFail(c) ==
  /\ validations[c].pc \in {"verify", "lookup", "extend"}
  /\ Step(handleSessionValidationCatch(State, c))
  /\ UNCHANGED served

\* Frames of one key are counted by the rate-limit cache; the count bounds
\* the frames a specification lets a peer send.
FrameBudget(c, n) == conn[c].st = "open" /\ CacheGet(State, conn[c].key) < n

Startup == StartupResetPeers \/ StartupEndOrphans

\* A provider advertises the discovery key derived from its own public key.
DKeyOf == [k \in Keys |-> IF k = "k1" THEN "d1" ELSE "d2"]

Honest(c, f) ==
  (conn[c].st = "open" /\ f.key = "join") => f.dkey = DKeyOf[conn[c].key]

Transport(F, K, E) ==
  \/ \E c \in Conns, key \in K : Connect(c, key)
  \/ \E c \in Conns, f \in F :
        /\ FrameBudget(c, MaxFrames) /\ Honest(c, f)
        /\ f.key = "inference" => inferenceRequests[c].pc = "idle"
        /\ PeerData(c, f)
  \/ \E c \in Conns : \E p \in joinPending[c] : JoinResume(c, p)
  \/ \E c \in Conns, fatal \in E : PeerError(c, fatal)
  \/ \E c \in Conns : PeerClose(c)
  \/ \E c \in Conns, h \in {"err", "close"} : DisconnectOffline(c, h)
  \/ \E c \in Conns, h \in {"err", "close"} : DisconnectEnd(c, h)

Timers ==
  \/ \E c \in Conns : DurationTick(c)
  \/ \E c \in Conns : HeartbeatTick(c)
  \/ \E c \in Conns, registered \in BOOLEAN : HealthTimeout(c, registered)

Http ==
  \/ \E r \in Reqs, ip \in Ips, model \in Models : HttpRequest(r, ip, model)
  \/ \E r \in Reqs : HttpIncrement(r)
  \/ \E r \in Reqs : HttpSelect(r)
  \/ \E r \in Reqs : HttpClose(r)

FramesOf(keys, versions) ==
  {f \in Frames : f.key \in keys /\ (f.key = "join" => f.version \in versions)}

\* Matchmaking: providers join, report their connection counts and leave,
\* while peers ask for a provider; each connection makes one request.
MatchFrames ==
  FramesOf({"join", "conectionSize", "requestProvider"}, {<<1, 2, 0>>})

NextMatch ==
  \/ Startup
  \/ \E c \in Conns, key \in Keys : Connect(c, key)
  \/ \E c \in Conns, f \in MatchFrames :
        /\ FrameBudget(c, MaxFrames) /\ Honest(c, f)
        /\ f.key = "requestProvider" => providerRequests[c].pc = "idle"
        /\ PeerData(c, f)
  \/ \E c \in Conns : \E p \in joinPending[c] : JoinResume(c, p)
  \/ \E c \in Conns : PeerClose(c)
  \/ \E c \in Conns : DisconnectOffline(c, "close")
  \/ \E c \in Conns : DisconnectEnd(c, "close")
  \/ \E c \in Conns, providerPeer \in peers \cup {NoPeer} :
        RequestLookup(c, providerPeer)
  \/ \E c \in Conns, t \in SessionTokens : RequestCreate(c, t)

SpecMatch == Init /\ [][NextMatch]_vars

\* Health checks of one provider key: joins, acknowledgements, the interval
\* and timeout callbacks, closes and disconnect handling.
HealthFrames == FramesOf({"join", "healthCheck"}, {<<1, 2, 0>>})

NextHealth ==
  \/ Startup
  \/ \E c \in Conns : Connect(c, "k1")
  \/ \E c \in Conns, f \in HealthFrames :
        FrameBudget(c, MaxFrames) /\ Honest(c, f) /\ PeerData(c, f)
  \/ \E c \in Conns : \E p \in joinPending[c] : JoinResume(c, p)
  \/ \E c \in Conns : PeerClose(c)
  \/ \E c \in Conns : DisconnectOffline(c, "close")
  \/ \E c \in Conns : DisconnectEnd(c, "close")
  \/ Timers

SpecHealth == Init /\ [][NextHealth]_vars

\* The peers table under joins that advertise any discovery key: a peer may
\* join again with another discovery key, two peers may advertise the same.
PeerTableFrames == FramesOf({"join", "conectionSize"}, {<<1, 2, 0>>})

NextPeers ==
  \/ Startup
  \/ \E c \in Conns, key \in Keys : Connect(c, key)
  \/ \E c \in Conns, f \in PeerTableFrames :
        FrameBudget(c, MaxPeerTableFrames) /\ PeerData(c, f)
  \/ \E c \in Conns : \E p \in joinPending[c] : JoinResume(c, p)

SpecPeers == Init /\ [][NextPeers]_vars

\* One runQuery call after another, each statement answered with success, a
\* busy error or another error.
NextStore ==
  \/ \E op \in BaseOps \cup PeerOps : QueryStart(op)
  \/ \E err \in ErrorCodes : QuerySettle(err)
  \/ QueryBackoff

SpecStore == Init /\ [][NextStore]_vars

\* The delete-peer command beside a running hub.
CliFrames == FramesOf({"join"}, {<<1, 2, 0>>})

NextCli ==
  \/ Startup
  \/ \E c \in Conns, key \in Keys : Connect(c, key)
  \/ \E c \in Conns, f \in CliFrames :
        FrameBudget(c, MaxFrames) /\ Honest(c, f) /\ PeerData(c, f)
  \/ \E c \in Conns : \E p \in joinPending[c] : JoinResume(c, p)
  \/ \E c \in Conns : PeerClose(c)
  \/ \E c \in Conns : DisconnectOffline(c, "close")
  \/ \E c \in Conns : DisconnectEnd(c, "close")
  \/ \E key \in Keys : CliStart(key)
  \/ CliResetPeers
  \/ CliEndOrphans
  \/ \E failed \in BOOLEAN : CliDelete(failed)
  \/ \E failed \in BOOLEAN : CliDeleteSession(failed)
  \/ CliExit

SpecCli == Init /\ [][NextCli]_vars

\* Session validation on one connection: a provider joins, asks for a provider
\* and gets the token s1, and sends tokens back for validation, each frame
\* after the handler of the one before has returned, while time passes; once
\* the token is handed out the delete-peer command may remove the provider's
\* row.
ValidateFrames ==
  {f \in FramesOf({"join", "requestProvider", "verifySession"}, {<<1, 2, 0>>}) :
     f.key = "requestProvider" => f.model \in Models}

NextValidate ==
  \/ Startup
  \/ Connect(1, "k1")
  \/ \E c \in Conns, f \in ValidateFrames :
        /\ FrameBudget(c, MaxPeerTableFrames) /\ Honest(c, f)
        /\ joinPending[c] = {}
        /\ providerRequests[c].pc \in {"idle", "returned"}
        /\ f.key = "requestProvider" => providerRequests[c].pc = "idle"
        /\ validations[c].pc \in {"idle", "returned"}
        /\ PeerData(c, f)
  \/ \E c \in Conns : \E p \in joinPending[c] : JoinResume(c, p)
  \/ \E c \in Conns, providerPeer \in peers \cup {NoPeer} :
        RequestLookup(c, providerPeer)
  \/ \E c \in Conns : RequestCreate(c, "s1")
  \/ \E c \in Conns : ValidateVerify(c)
  \/ \E c \in Conns, providerPeer \in peers \cup {NoPeer} :
        ValidateLookup(c, providerPeer)
  \/ \E c \in Conns : ValidateExtend(c)
  \/ \E c \in Conns : ValidateFail(c)
  \/ issued["s1"].st # "never" /\ CliStart("k1")
  \/ CliResetPeers
  \/ CliEndOrphans
  \/ CliDelete(FALSE)
  \/ CliDeleteSession(FALSE)
  \/ CliExit
  \/ Tick(SESSION_DURATION, 2 * SESSION_DURATION)

SpecValidate == Init /\ [][NextValidate]_vars

\* The connection lifecycle across restarts: connections, joins, connection
\* counts, errors and disconnects.
LifecycleFrames == FramesOf({"join", "conectionSize"}, {<<1, 2, 0>>})

Next == Startup \/ Restart \/ Transport(LifecycleFrames, Keys, BOOLEAN)

Spec == Init /\ [][Next]_vars

\* The per-peer registries and timers of one process.
CleanupFrames == FramesOf({"join", "inference"}, {<<1, 2, 0>>})

Inference ==
  \/ \E c \in Conns : InferenceSelect(c)
  \/ \E c \in Conns : InferenceLog(c)

NextCleanup ==
  \/ Startup
  \/ Transport(CleanupFrames, {"k1"}, {TRUE})
  \/ Inference
  \/ Timers

SpecCleanup == Init /\ [][NextCleanup]_vars

\* The version gate of the join handler.
JoinGateFrames == FramesOf({"join"}, Versions)

NextJoin == Startup \/ Transport(JoinGateFrames, Keys, BOOLEAN)

SpecJoin == Init /\ [][NextJoin]_vars

\* The HTTP front door and the relay of provider frames to responders.
RelayFrames == FramesOf({"join", "", "inferenceEnded"}, {<<1, 2, 0>>})

NextHttp == Startup \/ Transport(RelayFrames, {"k1"}, BOOLEAN) \/ Http

SpecHttp == Init /\ [][NextHttp]_vars

\* The relay with room for a message after the end of a response: connections
\* of k1 that join, stream, end the inference and go on sending, or raise an
\* error, beside the HTTP requests.
NextRelay ==
  \/ Startup
  \/ \E c \in Conns : Connect(c, "k1")
  \/ \E c \in Conns, f \in RelayFrames :
        FrameBudget(c, MaxPeerTableFrames) /\ Honest(c, f) /\ PeerData(c, f)
  \/ \E c \in Conns : \E p \in joinPending[c] : JoinResume(c, p)
  \/ \E c \in Conns : PeerError(c, FALSE)
  \/ Http

SpecRelay == Init /\ [][NextRelay]_vars

\* The provider of a pending responder answers: it ends the inference, or
\* its connection closes.
Answer(c) ==
  /\ conn[c].st = "open"
  /\ PendingReply(conn[c].key) # NoReq
  /\ PeerData(c, Frame("inferenceEnded")) \/ PeerClose(c)

\* The front door with one provider connection, under the scheduling the
\* runtime gives: an awaited store call resolves and its handler goes on, and
\* a provider that holds a pending responder answers or goes away.
NextHttpLive ==
  \/ Startup
  \/ \E key \in Keys : Connect(1, key)
  \/ \E f \in FramesOf({"join"}, {<<1, 2, 0>>}) :
        FrameBudget(1, MaxFrames) /\ Honest(1, f) /\ PeerData(1, f)
  \/ \E p \in joinPending[1] : JoinResume(1, p)
  \/ PeerClose(1)
  \/ DisconnectOffline(1, "close")
  \/ DisconnectEnd(1, "close")
  \/ Answer(1)
  \/ Http

SpecHttpLive ==
  /\ Init
  /\ [][NextHttpLive]_vars
  /\ WF_vars(Startup)
  /\ WF_vars(\E p \in joinPending[1] : JoinResume(1, p))
  /\ WF_vars(DisconnectOffline(1, "close"))
  /\ WF_vars(DisconnectEnd(1, "close"))
  /\ WF_vars(Answer(1))
  /\ \A r \in Reqs : WF_vars(HttpIncrement(r)) /\ WF_vars(HttpSelect(r))

\* The broker-session store under any sequence of its calls and of clock
\* advances.
NextSession ==
  \/ \E t \in SessionTokens, d \in DKeys : Create(t, d)
  \/ \E t \in SessionTokens : Verify(t)
  \/ \E t \in SessionTokens : Extend(t)
  \/ \E t \in SessionTokens : Delete(t)
  \/ \E d \in {SESSION_DURATION \div 2, SESSION_DURATION \div 2 + 1} :
        Tick(d, MaxSessionTicks * (SESSION_DURATION \div 2 + 1))

SpecSession == Init /\ [][NextSession]_vars

\* One client that makes its POSTs one after another, each after the hub has
\* answered the one before with 429 or with the 200 header.
WindowMs == TIME_WINDOW * 60 * 1000

Sequential == \A q \in Reqs : reqs[q].pc # "admitted"

NextHttpRate ==
  \/ Startup
  \/ \E ip \in Ips, model \in Models :
        posts[ip].n < MaxPosts /\ Sequential /\ HttpRequest(1, ip, model)
  \/ HttpIncrement(1)
  \/ HttpSelect(1)
  \/ HttpDone(1)
  \/ \E d \in {WindowMs \div 2, WindowMs \div 2 + 1} : Tick(d, 2 * WindowMs)

SpecHttpRate == Init /\ [][NextHttpRate]_vars

\* One client whose POSTs overlap once its count is near the limit: a request
\* may arrive while the one before it is between the count's read and its
\* increment.  A provider connects and joins when the limit is near, so that
\* the last admitted requests and the first rejected ones meet a provider.
NextHttpRace ==
  \/ Startup
  \/ /\ \E ip \in Ips : ip_messages[ip].message_count >= MAX_HTTP_REQUESTS - 2
     /\ \/ Connect(1, "k1")
        \/ \E f \in FramesOf({"join"}, {<<1, 2, 0>>}) :
              FrameBudget(1, 1) /\ Honest(1, f) /\ PeerData(1, f)
        \/ \E p \in joinPending[1] : JoinResume(1, p)
  \/ \E r \in Reqs, ip \in Ips, model \in Models :
        /\ posts[ip].n < MaxPosts
        /\ Sequential \/ ip_messages[ip].message_count >= MAX_HTTP_REQUESTS - 2
        /\ HttpRequest(r, ip, model)
  \/ \E r \in Reqs : HttpIncrement(r)
  \/ \E r \in Reqs : HttpSelect(r)
  \/ \E r \in Reqs : HttpDone(r)

SpecHttpRace == Init /\ [][NextHttpRace]_vars

\* One provider that sends many frames.  When it is about to reach its
\* limit an HTTP request arrives and time passes, so that frames on either
\* side of the limit meet a parked response and either side of the window.
NearLimit == frames["k1"].n >= MAX_MESSAGES_PER_MINUTE - 2

PeerRateFrames == {Frame(""), Frame("challenge")}

NextPeerRate ==
  \/ Startup
  \/ Connect(1, "k1")
  \/ \E f \in FramesOf({"join"}, {<<1, 2, 0>>}) :
        /\ conn[1].st = "open" /\ frames["k1"].n = 0
        /\ Honest(1, f) /\ PeerData(1, f)
  \/ \E p \in joinPending[1] : JoinResume(1, p)
  \/ \E f \in PeerRateFrames :
        /\ frames["k1"].n \in 1 .. MaxPeerFrames - 1
        /\ connectedPeers["k1"] # NoConn
        /\ PeerData(1, f)
  \/ \E ip \in Ips, model \in Models :
        NearLimit /\ HttpRequest(1, ip, model)
  \/ HttpIncrement(1)
  \/ HttpSelect(1)
  \/ \E d \in {MESSAGE_CACHE_TTL \div 2, MESSAGE_CACHE_TTL \div 2 + 1} :
        NearLimit /\ Tick(d, MaxClock)

SpecPeerRate == Init /\ [][NextPeerRate]_vars

\* ------------------------------------------------------------------- claims

\* C1: whatever the interleaving of connection opens, joins, closes, fatal
\* errors and restarts, no peer key has more than one provider_sessions row
\* whose end_time is NULL.
C1_OneOpenSessionPerKey ==
  \A k \in Keys : Cardinality(OpenSessions(provider_sessions, k)) <= 1

\* Two connections of one key are open at once, the second opened while the
\* session row of the first was still open.
C1_Witness ==
  \E c, d \in Conns :
    /\ c < d
    /\ conn[c].st = "open" /\ conn[d].st = "open"
    /\ conn[c].key = conn[d].key
    /\ Cardinality(OpenSessions(provider_sessions, conn[c].key)) = 1

\* Every connection the hub accepted with key k has closed and each
\* handlePeerDisconnect(k) it started has returned; at least one did.
DisconnectCompleted(k) ==
  /\ \E c \in Conns : conn[c].key = k /\ disc[c].close = "done"
  /\ \A c \in Conns :
        conn[c].key = k =>
          /\ conn[c].st = "closed"
          /\ disc[c].close = "done"
          /\ disc[c].err \in {"idle", "done"}

\* C2: once handlePeerDisconnect(k) has completed and until a new connection
\* with key k is accepted, the peers row of k is offline, no duration ticker,
\* health ticker or health timeout is armed or registered for k, and no
\* inference token maps to k.
C2_DisconnectCleansUp ==
  \A k \in Keys :
    DisconnectCompleted(k) =>
      /\ \A r \in peers : r.key = k => ~r.online
      /\ durationIntervals[k] = NoConn
      /\ heartbeatIntervals[k] = NoConn
      /\ healthCheckTimeouts[k] = NoTimer
      /\ connectedPeers[k] = NoConn
      /\ \A c \in Conns :
            conn[c].key = k =>
              /\ c \notin armedDuration
              /\ armedHeartbeat[c] = 0
              /\ armedTimeout[c] = 0
      /\ \A t \in InferenceTokens : inferenceTokens[t] # k

PendingResponders(k) ==
  {r \in Reqs : reqs[r].pc = "parked" /\ reqs[r].target = k /\ ~reqs[r].ended}

\* C4: at most one pending HTTP responder exists per provider key: a second
\* POST matched to a provider whose responder is still unterminated is
\* refused, so it is never parked on the provider beside the first.
C4_ResponderUniqueness ==
  \A k \in Keys : Cardinality(PendingResponders(k)) <= 1

\* C5: when a connection has closed or failed fatally while a responder was
\* pending for its peer, then once the disconnect handling has completed the
\* responder has been ended with an error event and is no longer in the
\* pending-responder map (unless its client went away first).
C5_ResponderFlushed ==
  \A c \in Conns :
    LET r == disc[c].reply
    IN (r # NoReq /\ (disc[c].close = "done" \/ disc[c].err = "done")) =>
         \/ reqs[r].closed
         \/ /\ reqs[r].ended /\ reqs[r].err
            /\ httpPeerReplies[conn[c].key] # r

\* C6: every POST that passes the rate limit is eventually terminated by the
\* hub (or given up by its client): no admitted response stays open forever,
\* also when the selected provider has no entry in the connected-peer map or
\* disconnects before it sends inferenceEnded.
C6_AdmittedEventuallyTerminated ==
  \A r \in Reqs :
    (reqs[r].status = 200) ~> (reqs[r].ended \/ reqs[r].closed)

\* C7: verifySession(t) returns discovery key d if and only if a
\* createSession(d) returned t, t was not deleted since, and the time is not
\* past t's expiry, 10 minutes after its creation or its last extension; in
\* every other case it returns nothing, and when t has expired it also
\* deletes the row of t.
C7_SessionTokenBinding ==
  [][\A t \in SessionTokens :
       Verify(t) =>
         /\ verified'.result =
               IF issued[t].st = "live" /\ now <= issued[t].expiry
                 THEN issued[t].d ELSE ""
         /\ Expired(t) => ~sessions'[t].present]_vars

\* A token was verified successfully more than 10 minutes after its creation,
\* by virtue of an extension, while another call of verifySession has found
\* a token expired.
C7_Witness ==
  /\ verified.token # "" /\ verified.result \in DKeys
  /\ now > issued[verified.token].created + SESSION_DURATION
  /\ \E u \in SessionTokens :
        issued[u].st = "deleted" /\ now > issued[u].created + SESSION_DURATION

\* C8: of the POSTs one IP makes one after another within 60 minutes of its
\* first, the first 100 are admitted and get status 200, and the 101st and
\* every later one is answered 429.
C8_HttpRateLimit ==
  [][\A ip \in Ips, model \in Models :
       /\ (HttpRequest(1, ip, model) /\ Sequential
              /\ (posts[ip].n = 0 \/ now <= posts[ip].first + WindowMs)) =>
            IF posts[ip].n < MAX_HTTP_REQUESTS
              THEN reqs'[1].pc = "admitted" /\ ~reqs'[1].ended
              ELSE reqs'[1].status = 429 /\ reqs'[1].ended
       /\ HttpIncrement(1) => reqs'[1].status = 200]_vars

\* The IP has made more than 101 requests within its window, time has
\* passed since the first, and the last one was answered 429.
C8_Witness ==
  \E ip \in Ips :
    /\ posts[ip].n > MAX_HTTP_REQUESTS + 1
    /\ posts[ip].first < now /\ now <= posts[ip].first + WindowMs
    /\ reqs[1].ip = ip /\ reqs[1].status = 429

\* C9: of the frames one peer sends within 60 seconds of its first, the first
\* 500 are processed (counted, and dispatched or relayed) and the 501st and
\* every later one is dropped: nothing is dispatched, relayed or counted.
C9_PeerRateLimit ==
  [][\A c \in Conns, f \in PeerRateFrames :
       LET key == conn[c].key
       IN (conn[c].st = "open" /\ PeerData(c, f) /\ frames[key].n > 0
             /\ now <= frames[key].first + MESSAGE_CACHE_TTL) =>
            IF frames[key].n < MAX_MESSAGES_PER_MINUTE
              THEN /\ messageRateLimitCache'[key].count = frames[key].n + 1
                   /\ IF f.key = "challenge"
                        THEN out' = <<[to |-> c, frame |-> "challenge",
                                       data |-> <<>>]>>
                        ELSE PendingReply(key) # NoReq =>
                               reqs'[PendingReply(key)].chunks =
                                 reqs[PendingReply(key)].chunks + 1
              ELSE /\ out' = <<>>
                   /\ UNCHANGED <<messageRateLimitCache, reqs, peers,
                                  provider_sessions, connectedPeers,
                                  httpPeerReplies, inferenceTokens,
                                  joinPending>>]_vars

\* The peer has sent more than 501 frames within 60 seconds of its first, an
\* HTTP response that took chunks before is parked on it, and the last frame
\* left the count at 500.
C9_Witness ==
  /\ frames["k1"].n > MAX_MESSAGES_PER_MINUTE + 1
  /\ frames["k1"].first < now
  /\ now <= frames["k1"].first + MESSAGE_CACHE_TTL
  /\ messageRateLimitCache["k1"].count = MAX_MESSAGES_PER_MINUTE
  /\ PendingReply("k1") # NoReq
  /\ reqs[PendingReply("k1")].chunks > 0
  /\ out = <<>>

\* The versions the join handler must turn away when the minimum is 1.2.0.
TooOld == {NoVersion, <<1, 1, 9>>}

VersionMismatch(c) ==
  [to |-> c, frame |-> "versionMismatch",
   data |-> MIN_SUPPORTED_SYMMETRY_CORE_VERSION]

\* C10: a join whose symmetryCoreVersion is missing or lower than the minimum
\* is answered with exactly one versionMismatch frame that carries the
\* minimum, and nothing else happens: no peers row is written or modified,
\* the peer is not put into the connected-peer map, no health check is
\* started, no joinAck is sent, and the connection stays open.
C10_VersionGate ==
  [][\A c \in Conns, f \in JoinGateFrames :
       (conn[c].st = "open" /\ f.version \in TooOld /\ PeerData(c, f)) =>
         /\ out' = <<VersionMismatch(c)>>
         /\ UNCHANGED <<peers, provider_sessions, connectedPeers, joinPending,
                        heartbeatIntervals, healthCheckTimeouts,
                        armedHeartbeat, armedTimeout, conn, disc>>]_vars

\* A connection whose join was just turned away is open, and its peer has no
\* row and no entry in the connected-peer map.
C10_Witness ==
  \E c \in Conns :
    /\ out = <<VersionMismatch(c)>>
    /\ conn[c].st = "open"
    /\ joinPending[c] = {}
    /\ connectedPeers[conn[c].key] = NoConn
    /\ \A r \in peers : r.key # conn[c].key

\* C11: a provider session row is opened only for a connection whose join
\* succeeded: every provider_sessions row belongs to the key of a connection
\* that has joined.
C11_SessionOnlyAfterJoin ==
  \A i \in DOMAIN provider_sessions :
    \E c \in Conns :
      conn[c].key = provider_sessions[i].peer_key /\ disc[c].joined

\* C12: on a connection that has not completed a join, a frame other than
\* join is dropped: it writes no reply, changes no store row and no in-memory
\* map, and the connection stays as it is.
C12_OnlyJoinBeforeJoin ==
  [][\A c \in Conns, f \in Frames :
       (conn[c].st = "open" /\ ~disc[c].joined /\ f.key # "join"
          /\ PeerData(c, f)) =>
         /\ out' = <<>>
         /\ UNCHANGED <<peers, provider_sessions, connectedPeers,
                        httpPeerReplies, inferenceTokens, durationIntervals,
                        heartbeatIntervals, healthCheckTimeouts, reqs, conn>>]_vars

\* C13: a requestProvider for a model no online peer serves makes at most
\* MAX_ATTEMPTS = 5 lookups in the peer store and then ends without a frame
\* and without a broker session.
C13_AtMostMaxAttempts ==
  \A c \in Conns :
    providerRequests[c].lookups <= MAX_RANDOM_PEER_REQUEST_ATTEMPTS

\* The row has as many connections as it allows, or more.
AtCapacity(row) == OrZero(row.connections) >= row.max_connections

\* C14: when the provider that was selected is at its connection limit
\* (connections >= max_connections), handleRequestProvider returns: it
\* writes no frame, creates no broker session and selects no other provider.
C14_SaturatedProviderNoReply ==
  [][\A c \in Conns, row \in peers :
       (AtCapacity(row) /\ RequestLookup(c, row)) =>
         /\ providerRequests'[c].pc = "returned"
         /\ providerRequests'[c].providerPeer = NoPeer
         /\ providerRequests'[c].attempts = providerRequests[c].attempts
         /\ out' = <<>>
         /\ UNCHANGED <<sessions, issued, peers>>]_vars

\* A request returned after its first lookup although a row was found.
C14_Witness ==
  \E c \in Conns :
    /\ providerRequests[c].pc = "returned"
    /\ providerRequests[c].lookups = 1
    /\ providerRequests[c].attempts = 0
    /\ providerRequests[c].providerPeer = NoPeer
    /\ \A t \in SessionTokens : issued[t].st = "never"

\* C15: when matchmaking replies, the provider it names was online, served
\* the requested model and was below its connection limit when it was
\* selected; exactly one broker session, bound to the provider's discovery
\* key, is created and exactly one providerDetails frame with the provider's
\* key and the session token is written to the requester; and a peer that a
\* completed disconnect marked offline is not named until it joins again.
C15_MatchmakingReply ==
  [][/\ \A c \in Conns, row \in peers :
          (RequestLookup(c, row) /\ providerRequests'[c].pc = "create") =>
            /\ row.online
            /\ row.model_name = providerRequests[c].model
            /\ ~AtCapacity(row)
            /\ providerRequests'[c].providerPeer = row
     /\ \A c \in Conns, t \in SessionTokens :
          RequestCreate(c, t) =>
            LET row == providerRequests[c].providerPeer
            IN /\ sessions'[t].present
               /\ sessions'[t].providerId = row.discovery_key
               /\ \A u \in SessionTokens \ {t} : sessions'[u] = sessions[u]
               /\ out' = <<[to |-> c, frame |-> "providerDetails",
                            data |-> [providerId |-> row.key,
                                      sessionToken |-> t]]>>
               /\ ~DisconnectCompleted(row.key)]_vars

\* The connection is open and is the one registered for its key.
Joined(c) == conn[c].st = "open" /\ connectedPeers[conn[c].key] = c

\* C16: when a health-check timeout fires for a joined peer, the peer is
\* marked healthy = false and one healthCheckFailed frame is written to it;
\* it stays registered and online, its session stays open and its tickers
\* keep running.
C16_HealthTimeoutEffect ==
  [][\A c \in Conns, registered \in BOOLEAN :
       (Joined(c) /\ HealthTimeout(c, registered)) =>
         /\ peers' = {IF r.key = conn[c].key THEN [r EXCEPT !.healthy = 0]
                                              ELSE r : r \in peers}
         /\ out' = <<[to |-> c, frame |-> "healthCheckFailed", data |-> <<>>]>>
         /\ healthCheckTimeouts'[conn[c].key].by =
               healthCheckTimeouts[conn[c].key].by
         /\ UNCHANGED <<connectedPeers, provider_sessions, conn,
                        durationIntervals, heartbeatIntervals, armedDuration,
                        armedHeartbeat, inferenceTokens, httpPeerReplies,
                        reqs, joinPending, disc>>]_vars

\* A joined peer whose health check has just timed out.
C16_Witness ==
  \E c \in Conns :
    /\ Joined(c)
    /\ out = <<[to |-> c, frame |-> "healthCheckFailed", data |-> <<>>]>>
    /\ \E r \in peers : r.key = conn[c].key /\ r.healthy = 0 /\ r.online
    /\ armedHeartbeat[c] > 0 /\ c \in armedDuration
    /\ OpenSessions(provider_sessions, conn[c].key) # {}

\* C17: a healthCheck acknowledgement that arrives while the timeout of the
\* outstanding health check has not fired cancels and unregisters that
\* timeout and marks the peer healthy = true; the step writes the
\* acknowledgement only, and a timeout that was the only one armed for the
\* key leaves none that could still report a failure.
C17_AckCancelsTimeout ==
  [][\A c \in Conns, f \in Frames :
       LET key == conn[c].key
           timeout == healthCheckTimeouts[key]
       IN (conn[c].st = "open" /\ f.key = "healthCheck" /\ timeout.live
             /\ PeerData(c, f)) =>
            /\ healthCheckTimeouts'[key] = NoTimer
            /\ armedTimeout' =
                  [armedTimeout EXCEPT ![timeout.by] = @ - 1]
            /\ peers' = {IF r.key = key THEN [r EXCEPT !.healthy = 1] ELSE r
                           : r \in peers}
            /\ out' = <<[to |-> c, frame |-> "healthCheckAck", data |-> <<>>]>>
            /\ (\A d \in Conns :
                   conn[d].key = key =>
                     armedTimeout[d] = (IF d = timeout.by THEN 1 ELSE 0))
                 => \A d \in Conns : conn[d].key = key => armedTimeout'[d] = 0]_vars

\* A peer has acknowledged its health check in time.
C17_Witness ==
  \E c \in Conns :
    /\ Joined(c)
    /\ out = <<[to |-> c, frame |-> "healthCheckAck", data |-> <<>>]>>
    /\ healthCheckTimeouts[conn[c].key] = NoTimer
    /\ armedTimeout[c] = 0
    /\ \E r \in peers : r.key = conn[c].key /\ r.healthy = 1

\* What a message can change besides the sender's message count.
relayVars ==
  <<peers, provider_sessions, ip_messages, conn, joinPending, disc,
    connectedPeers, httpPeerReplies, inferenceTokens, durationIntervals,
    heartbeatIntervals, healthCheckTimeouts, armedDuration, armedHeartbeat,
    armedTimeout, providerRequests, sessions>>

\* C18: an inferenceEnded frame from a peer for whose key a responder is
\* pending ends that responder without an error event, so the stream
\* terminates; an inferenceEnded frame from a peer with no responder
\* registered changes nothing (but the sender's message count).
C18_InferenceEndedEndsResponder ==
  [][\A c \in Conns :
       (conn[c].st = "open" /\ PeerData(c, Frame("inferenceEnded"))) =>
         LET r == httpPeerReplies[conn[c].key]
         IN /\ UNCHANGED relayVars /\ out' = <<>>
            /\ IF r = NoReq THEN UNCHANGED reqs
               ELSE /\ \A q \in Reqs \ {r} : reqs'[q] = reqs[q]
                    /\ reqs'[r].ended
                    /\ reqs'[r].chunks = reqs[r].chunks
                    /\ ~reqs[r].ended =>
                         reqs'[r] = [reqs[r] EXCEPT !.ended = TRUE]]_vars

\* A parked responder was ended without an error event.
C18_Witness ==
  \E r \in Reqs :
    /\ reqs[r].pc = "parked" /\ reqs[r].ended /\ ~reqs[r].err
    /\ httpPeerReplies[reqs[r].target] = r

HandlerPending(c) ==
  \/ joinPending[c] # {}
  \/ providerRequests[c].pc \in {"lookup", "create"}

\* C20: the frames of one connection take effect in the order of their
\* arrival: when a frame is handled, every state change of the frames that
\* arrived before it on that connection has been made; in particular the
\* effects of a join precede those of every later frame.
C20_FramesInArrivalOrder ==
  [][\A c \in Conns, f \in Frames :
       (conn[c].st = "open" /\ PeerData(c, f)) => ~HandlerPending(c)]_vars

\* C21: after any sequence of joins the peers table holds at most one row
\* per key and at most one row per discovery_key.
C21_PeersKeysUnique ==
  \A r1, r2 \in peers :
    (r1.key = r2.key \/ r1.discovery_key = r2.discovery_key) => r1 = r2

\* C22: after upsert(record), get_by_key(record.key) finds a row that carries
\* the record's fields with online = true; and an upsert on a key that has a
\* row already keeps that row's accumulated values that the join payload
\* does not carry, such as the reported connections count.
C22_UpsertPreserves ==
  [][\A c \in Conns, f \in JoinFrames :
       JoinResume(c, JoinPayload(f)) =>
         \E row \in getByKey(peers', conn[c].key) :
           /\ row.discovery_key = f.dkey
           /\ row.model_name = f.model
           /\ row.max_connections = f.maxc
           /\ row.online
           /\ \A old \in getByKey(peers, conn[c].key) :
                 old.discovery_key = f.dkey =>
                   row.connections = old.connections]_vars

\* C23: a store operation that fails with a busy error is tried again, up to
\* 5 attempts in all, after 100 ms x 2^attempt; another error, or a busy
\* error on the 5th attempt, goes to the caller; no operation is attempted
\* more than 5 times.  This holds for every store, the peer store included.
C23_BusyRetried ==
  [][\A err \in ErrorCodes :
       QuerySettle(err) =>
         /\ query'.calls <= maxRetries
         /\ (err = "SQLITE_BUSY" /\ query.calls < maxRetries - 1) =>
               /\ query'.pc = "waiting"
               /\ query'.delay = 100 * Pow2(query.calls)
         /\ (err = "SQLITE_CONSTRAINT"
               \/ (err = "SQLITE_BUSY" /\ query.calls = maxRetries - 1)) =>
               /\ query'.pc = "rejected"
               /\ query'.error = err
         /\ err = "" => query'.pc = "resolved"]_vars

\* C24: the delete-peer command exits with status 0 when the peer was
\* deleted or was not found, and with another status when the deletion
\* raised an error.
C24_DeletePeerExitStatus ==
  cli.pc = "exited" => (cli.status = 0 <=> ~cli.raised)

\* C25: when the client of a parked request disconnects, the responder of
\* that request is removed from the pending-responder map, the responder
\* that another request registered for the same provider stays, and no
\* frame is written to the provider.
C25_ClientCloseRemovesOwnResponder ==
  [][\A r \in Reqs :
       HttpClose(r) =>
         /\ out' = <<>>
         /\ httpPeerReplies' =
               [k \in Keys |-> IF httpPeerReplies[k] = r THEN NoReq
                                ELSE httpPeerReplies[k]]]_vars

\* C26 (the part that is no statement about frequencies): whenever a
\* matchmaking call is about to receive its row, every online provider of the
\* requested model that is below its connection limit can be the row it
\* receives, whatever was chosen before.
C26_EveryEligibleSelectable ==
  \A c \in Conns, row \in peers :
    (/\ providerRequests[c].pc = "lookup"
     /\ row.online /\ row.model_name = providerRequests[c].model
     /\ ~AtCapacity(row)) => ENABLED RequestLookup(c, row)

\* A call is about to receive its row while two providers are eligible.
C26_Witness ==
  \E c \in Conns :
    /\ providerRequests[c].pc = "lookup"
    /\ Cardinality({row \in peers :
                      /\ row.online
                      /\ row.model_name = providerRequests[c].model
                      /\ ~AtCapacity(row)}) = 2

\* C27: handlePeerDisconnect cancels and unregisters the timers of the key
\* and removes its connected-peer entry before its first suspension point;
\* and a callback of the closed connection that completes afterwards (a join
\* that awaited its upsert) adds no connected-peer entry and no timer for
\* the key and does not set the peer online again.
C27_NoResurrection ==
  [][\A c \in Conns :
       LET k == conn[c].key
       IN /\ PeerClose(c) =>
               /\ connectedPeers'[k] = NoConn
               /\ durationIntervals'[k] = NoConn
               /\ heartbeatIntervals'[k] = NoConn
               /\ healthCheckTimeouts'[k] = NoTimer
          /\ \A f \in JoinFrames :
               (conn[c].st = "closed" /\ JoinResume(c, JoinPayload(f))) =>
                 /\ connectedPeers'[k] = connectedPeers[k]
                 /\ heartbeatIntervals'[k] = heartbeatIntervals[k]
                 /\ healthCheckTimeouts'[k] = healthCheckTimeouts[k]
                 /\ armedHeartbeat' = armedHeartbeat
                 /\ armedTimeout' = armedTimeout
                 /\ \A r \in peers' : (r.key = k /\ r.online) => r \in peers]_vars

\* The first conjunct of C27 alone: the synchronous part of the disconnect.
C27_SynchronousCancel ==
  [][\A c \in Conns :
       PeerClose(c) =>
         /\ connectedPeers'[conn[c].key] = NoConn
         /\ durationIntervals'[conn[c].key] = NoConn
         /\ heartbeatIntervals'[conn[c].key] = NoConn
         /\ healthCheckTimeouts'[conn[c].key] = NoTimer]_vars

RECURSIVE SumOver(_, _)
SumOver(f, S) ==
  IF S = {} THEN 0
  ELSE LET x == CHOOSE y \in S : TRUE IN f[x] + SumOver(f, S \ {x})

ConnsOf(k) == {c \in Conns : conn[c].key = k}

\* C28: at any time at most one session-duration ticker, one health-check
\* ticker and one health-check timeout is armed per peer key, and every armed
\* timer is the one the timer tables record for the key; also after a peer
\* has sent join more than once on one connection.
C28_OneTimerPerKey ==
  \A k \in Keys :
    /\ Cardinality(armedDuration \cap ConnsOf(k)) <= 1
    /\ SumOver(armedHeartbeat, ConnsOf(k)) <= 1
    /\ SumOver(armedTimeout, ConnsOf(k)) <= 1
    /\ \A c \in ConnsOf(k) :
          /\ c \in armedDuration => durationIntervals[k] = c
          /\ armedHeartbeat[c] > 0 => heartbeatIntervals[k] = c
          /\ armedTimeout[c] > 0 =>
                healthCheckTimeouts[k] = [by |-> c, live |-> TRUE]

\* C29: once an IP's last counted request is more than 60 minutes old, the
\* POSTs it makes one after another in the following 60 minutes are admitted
\* up to the 100th, however many it made in earlier windows.
C29_WindowReopens ==
  [][\A ip \in Ips, model \in Models :
       (/\ HttpRequest(1, ip, model) /\ Sequential
        /\ posts[ip].n > 0
        /\ posts'[ip].opened > posts[ip].first
        /\ now <= posts'[ip].opened + WindowMs
        /\ posts'[ip].fresh <= MAX_HTTP_REQUESTS) =>
         reqs'[1].pc = "admitted" /\ ~reqs'[1].ended]_vars

\* The token's row is there and the time is not past its expiry.
Unexpired(t) ==
  t # "" /\ sessions[t].present /\ now <= DateParse(sessions[t].expiresAt)

NoneCreatedOrExtended ==
  \A u \in SessionTokens : sessions'[u] = sessions[u] \/ sessions'[u] = NoSession

SessionValidReply(c, r) ==
  [to |-> c, frame |-> "sessionValid",
   data |-> [discoveryKey |-> r.discovery_key, modelName |-> r.model_name]]

C31_InferenceCounted ==
  [][/\ \A i \in DOMAIN provider_sessions :
          provider_sessions[i].end_time # NULL =>
            provider_sessions'[i].total_requests =
              provider_sessions[i].total_requests
     /\ \A c \in Conns :
          InferenceLog(c) =>
            \A i \in DOMAIN provider_sessions :
              provider_sessions'[i].total_requests =
                provider_sessions[i].total_requests
                  + (IF i \in OpenSessions(provider_sessions, conn[c].key)
                       THEN 1 ELSE 0)]_vars

\* The connection is open and its join has completed.
LiveJoined(c) == conn[c].st = "open" /\ disc[c].joined

\* C32: when a connection with key k closes after a newer connection with
\* the same key has joined, its disconnect handling leaves the newer
\* connection's registry entry and timers alone, and k stays online with an
\* open provider session.
C32_OldCloseSparesNewConnection ==
  [][\A c, d \in Conns :
       LET k == conn[d].key
       IN (c # d /\ conn[c].key = k /\ disc[c].joined /\ LiveJoined(d)
             /\ connectedPeers[k] = d) =>
            /\ PeerClose(c) =>
                 /\ connectedPeers'[k] = d
                 /\ heartbeatIntervals'[k] = heartbeatIntervals[k]
                 /\ healthCheckTimeouts'[k] = healthCheckTimeouts[k]
                 /\ durationIntervals'[k] = durationIntervals[k]
            /\ \A h \in {"err", "close"} :
                 /\ DisconnectOffline(c, h) =>
                      \E r \in peers' : r.key = k /\ r.online
                 /\ DisconnectEnd(c, h) =>
                      OpenSessions(provider_sessions', k) # {}]_vars

\* What a run of the disconnect handler can touch: the registry maps, the
\* timer tables and the timers themselves, the token index and the two
\* tables.
DisconnectView(s) ==
  <<s.connectedPeers, s.httpPeerReplies, s.durationIntervals,
    s.heartbeatIntervals, s.healthCheckTimeouts, s.armedDuration,
    s.armedHeartbeat, s.armedTimeout, s.inferenceTokens, s.peers,
    s.provider_sessions>>

AdmittedUncounted(ip) ==
  {q \in Reqs : reqs[q].pc = "admitted" /\ reqs[q].ip = ip}

\* C34: however the POSTs of one IP interleave, a request is admitted within
\* the window only while the requests already admitted, counted or not yet
\* counted, are fewer than 100.
C34_ConcurrentLimit ==
  [][\A r \in Reqs, ip \in Ips, model \in Models :
       (HttpRequest(r, ip, model) /\ now <= posts'[ip].first + WindowMs
          /\ reqs'[r].pc = "admitted") =>
         ip_messages[ip].message_count + Cardinality(AdmittedUncounted(ip))
           < MAX_HTTP_REQUESTS]_vars

\* C35: a POST that is answered 429 leaves the ip_messages row of its IP as
\* it was, selects no provider, registers no responder and writes nothing to
\* any peer; its handler has returned.
C35_RejectedLeavesNoTrace ==
  [][\A r \in Reqs, ip \in Ips, model \in Models :
       (HttpRequest(r, ip, model) /\ reqs'[r].status = 429) =>
         /\ ip_messages' = ip_messages
         /\ httpPeerReplies' = httpPeerReplies
         /\ peers' = peers
         /\ out' = <<>>
         /\ reqs'[r].pc = "returned" /\ reqs'[r].target = ""
         /\ \A q \in Reqs \ {r} : reqs'[q] = reqs[q]]_vars

\* A request was answered 429 while a joined provider was online and the
\* responder of an earlier request was parked on it.
C35_Witness ==
  \E r \in Reqs, k \in Keys :
    /\ reqs[r].status = 429 /\ reqs[r].pc = "returned"
    /\ connectedPeers[k] # NoConn
    /\ \E p \in peers : p.key = k /\ p.online
    /\ httpPeerReplies[k] \notin {NoReq, r}

C37_EveryChunkRelayed ==
  [][\A c \in Conns :
       LET r == PendingReply(conn[c].key)
       IN (conn[c].st = "open" /\ r # NoReq /\ PeerData(c, Frame(""))) =>
            reqs' = [reqs EXCEPT ![r].chunks = @ + 1]]_vars

\* C38: the frames of a peer change no peers row but the rows under the
\* peer's own key: whatever a join carries, and whatever count a
\* conectionSize frame reports, the rows of every other key stay as they are.
C38_FramesChangeOwnRowOnly ==
  [][\A c \in Conns :
       (\/ \E p \in joinPending[c] : JoinResume(c, p)
        \/ \E f \in Frames : PeerData(c, f)) =>
         {r \in peers' : r.key # conn[c].key}
           = {r \in peers : r.key # conn[c].key}]_vars


\* The fields of the rows of other keys, and the end times of the session
\* rows, that the delete-peer command is said to leave alone.
OtherPeerFields(tbl, key) ==
  {[key |-> r.key, online |-> r.online, connections |-> r.connections]
     : r \in {x \in tbl : x.key # key}}

SessionEndTimes(ps) == [i \in DOMAIN ps |-> ps[i].end_time]

CliStep ==
  \/ CliResetPeers
  \/ CliEndOrphans
  \/ \E failed \in BOOLEAN : CliDelete(failed)
  \/ \E failed \in BOOLEAN : CliDeleteSession(failed)
  \/ CliExit

\* C39: a step of the delete-peer <key> command changes only the peers row
\* with that key: online and connections of every other peers row, and the
\* end_time of every provider_sessions row, are after the step what they
\* were before it.
C39_DeletePeerChangesOwnRowOnly ==
  [][CliStep =>
       /\ OtherPeerFields(peers', cli.key) = OtherPeerFields(peers, cli.key)
       /\ SessionEndTimes(provider_sessions')
            = SessionEndTimes(provider_sessions)]_vars


\* C40: a healthCheck acknowledgement that arrives after the timeout of the
\* last health check has fired, and before the next health check is sent, is
\* ignored: it does not set healthy = true and no healthCheckAck frame is
\* written.
C40_LateAckIgnored ==
  [][\A c \in Conns, f \in Frames :
       LET key == conn[c].key
           timeout == healthCheckTimeouts[key]
       IN (conn[c].st = "open" /\ f.key = "healthCheck"
             /\ timeout.by # NoConn /\ ~timeout.live
             /\ PeerData(c, f)) =>
            /\ \A r \in peers' : (r.key = key /\ r.healthy = 1) => r \in peers
            /\ \A i \in DOMAIN out' : out'[i].frame # "healthCheckAck"]_vars

====
